---------------------------- MODULE Spec2Model ----------------------------
(***************************************************************************)
(* A model of the gopkgs vector libraries:                                 *)
(*   package vector    (3D, pointer receivers)   src/unnamed/part_000      *)
(*   package vector2d  (2D, pointer receivers)   src/unnamed/part_000      *)
(*   package vector2d  (2D, dynamically typed)   src/vector2d-generic      *)
(*                                                                         *)
(* Vectors live in a heap of cells; a *Vector is the index of its cell, so *)
(* that aliasing (two names for one cell) is visible.  A run allocates two *)
(* vectors with a constructor, makes one API call, and may then write to   *)
(* the vector the call returned.                                           *)
(*                                                                         *)
(* float32 is modelled as a small float format: a finite value is an       *)
(* integer count of quanta (Scale quanta make 1.0), results are rounded to *)
(* the nearest quantum, a magnitude above MaxF overflows to an infinity, a *)
(* product below half a quantum underflows to zero, and NaN is a value of  *)
(* its own.  The quantum plays the part of float32's resolution at 1.0     *)
(* (2^-23, about 1.2e-7).                                                  *)
(***************************************************************************)
EXTENDS Integers, Sequences, FiniteSets

\* Quanta per unit: the precision of the modelled float format.
Scale == 100

\* The largest finite magnitude of the modelled float format, in quanta.
MaxF == 20000

-----------------------------------------------------------------------------
(* float32 values and arithmetic *)

Fin(n) == [k |-> "fin", n |-> n]
NaN == [k |-> "nan", n |-> 0]
\* The infinity of sign s, s being -1 or 1.
Inf(s) == [k |-> "inf", n |-> s]
PInf == Inf(1)

Zero == Fin(0)
One == Fin(Scale)

IsNaN(a) == a.k = "nan"
IsInf(a) == a.k = "inf"

AbsI(n) == IF n < 0 THEN -n ELSE n
SgnI(n) == IF n < 0 THEN -1 ELSE IF n > 0 THEN 1 ELSE 0

\* Division rounded to the nearest integer, symmetric in the sign.
RoundDiv(a, b) == SgnI(a) * SgnI(b) * ((AbsI(a) + AbsI(b) \div 2) \div AbsI(b))

\* Rounding of an exact result into the format: overflow gives an infinity.
Rnd(n) == IF n > MaxF THEN PInf ELSE IF n < -MaxF THEN Inf(-1) ELSE Fin(n)

FNeg(a) == IF IsNaN(a) THEN NaN ELSE [k |-> a.k, n |-> -a.n]

FAbs(a) == IF IsNaN(a) THEN NaN ELSE [k |-> a.k, n |-> AbsI(a.n)]

FAdd(a, b) ==
    IF IsNaN(a) \/ IsNaN(b) THEN NaN
    ELSE IF IsInf(a) /\ IsInf(b) THEN (IF a.n = b.n THEN a ELSE NaN)
    ELSE IF IsInf(a) THEN a
    ELSE IF IsInf(b) THEN b
    ELSE Rnd(a.n + b.n)

FSub(a, b) == FAdd(a, FNeg(b))

FMul(a, b) ==
    IF IsNaN(a) \/ IsNaN(b) THEN NaN
    ELSE IF IsInf(a) \/ IsInf(b)
         THEN (IF a.n = 0 \/ b.n = 0 THEN NaN ELSE Inf(SgnI(a.n) * SgnI(b.n)))
    ELSE Rnd(RoundDiv(a.n * b.n, Scale))

FDiv(a, b) ==
    IF IsNaN(a) \/ IsNaN(b) THEN NaN
    ELSE IF IsInf(a) THEN (IF IsInf(b) THEN NaN
                           ELSE Inf(a.n * (IF b.n < 0 THEN -1 ELSE 1)))
    ELSE IF IsInf(b) THEN Zero
    ELSE IF b.n = 0 THEN (IF a.n = 0 THEN NaN ELSE Inf(SgnI(a.n)))
    ELSE Rnd(RoundDiv(a.n * Scale, b.n))

\* Comparisons: every comparison with NaN is false.
FLt(a, b) ==
    /\ ~IsNaN(a) /\ ~IsNaN(b)
    /\ IF IsInf(a) THEN a.n < 0 /\ b # Inf(-1)
       ELSE IF IsInf(b) THEN b.n > 0
       ELSE a.n < b.n
FGt(a, b) == FLt(b, a)
FEq(a, b) == ~IsNaN(a) /\ ~IsNaN(b) /\ a = b

\* The largest r in lo..hi with r * r <= n (lo * lo <= n), by bisection.
RECURSIVE ISqrtIn(_, _, _)
ISqrtIn(n, lo, hi) ==
    IF lo >= hi THEN lo
    ELSE LET mid == (lo + hi + 1) \div 2
         IN IF mid * mid <= n THEN ISqrtIn(n, mid, hi) ELSE ISqrtIn(n, lo, mid - 1)

\* The integer nearest to the square root of n, 0 <= n < 2^30.
ISqrt(n) ==
    LET r == ISqrtIn(n, 0, 32767)
    IN IF n - r * r > r THEN r + 1 ELSE r

\* math.Sqrt
FSqrt(a) ==
    IF IsNaN(a) THEN NaN
    ELSE IF IsInf(a) THEN (IF a.n > 0 THEN PInf ELSE NaN)
    ELSE IF a.n < 0 THEN NaN
    ELSE Fin(ISqrt(a.n * Scale))

FMin(a, b) == IF IsNaN(a) \/ IsNaN(b) THEN NaN ELSE IF FLt(a, b) THEN a ELSE b
FMax(a, b) == IF IsNaN(a) \/ IsNaN(b) THEN NaN ELSE IF FGt(a, b) THEN a ELSE b

-----------------------------------------------------------------------------
(* math.Cos, math.Sin, math.Acos, math.Atan2 *)

\* pi/2, pi and 2*pi in quanta (pi is taken as 355/113).
HalfPiQ == RoundDiv(355 * Scale, 226)
PiQ == 2 * HalfPiQ
TwoPiQ == 4 * HalfPiQ

\* cos and sin of x quanta, 0 <= x <= HalfPiQ, in quanta: the Taylor
\* polynomials of degree 6 and 7, each term rounded.
CosQ1(x) ==
    LET x2 == x * x
        x4 == RoundDiv(x2 * x2, Scale * Scale)
    IN Scale - RoundDiv(x2, 2 * Scale)
             + RoundDiv(x4, 24 * Scale)
             - RoundDiv(RoundDiv(x4 * x2, Scale * Scale), 720 * Scale)

SinQ1(x) ==
    LET x2 == x * x
        x4 == RoundDiv(x2 * x2, Scale * Scale)
    IN x - RoundDiv(x2 * x, 6 * Scale * Scale)
         + RoundDiv(x4 * x, 120 * Scale * Scale)
         - RoundDiv(RoundDiv(x4 * x2, Scale * Scale) * x, 5040 * Scale * Scale)

\* cos and sin of any angle of r quanta, by reduction to the first quadrant.
CosQ(r) ==
    LET m == r % TwoPiQ
        q == m \div HalfPiQ
        x == m % HalfPiQ
    IN CASE q = 0 -> CosQ1(x)
         [] q = 1 -> -SinQ1(x)
         [] q = 2 -> -CosQ1(x)
         [] OTHER -> SinQ1(x)

\* math.Cos and math.Sin: sin(r) = cos(r - pi/2); NaN for a non-finite angle.
FCos(a) == IF a.k = "fin" THEN Fin(CosQ(a.n)) ELSE NaN
FSin(a) == IF a.k = "fin" THEN Fin(CosQ(a.n - HalfPiQ)) ELSE NaN

\* The least angle in lo..hi whose cosine is at most c (0 <= c), by bisection:
\* the cosine does not increase on 0..HalfPiQ.
RECURSIVE AcosIn(_, _, _)
AcosIn(c, lo, hi) ==
    IF lo >= hi THEN lo
    ELSE LET mid == (lo + hi) \div 2
         IN IF CosQ1(mid) <= c THEN AcosIn(c, lo, mid) ELSE AcosIn(c, mid + 1, hi)

\* acos of c quanta, -Scale <= c <= Scale, in quanta, in 0..PiQ.
AcosQ(c) == IF c >= 0 THEN AcosIn(c, 0, HalfPiQ) ELSE PiQ - AcosIn(-c, 0, HalfPiQ)

\* math.Acos: NaN outside [-1, 1].
FAcos(a) ==
    IF a.k # "fin" \/ a.n > Scale \/ a.n < -Scale THEN NaN ELSE Fin(AcosQ(a.n))

\* math.Atan2, with atan2(0, 0) = 0; for finite y and x not both zero the
\* angle is found from the acos of the smaller leg over the hypotenuse, in
\* -PiQ+1..PiQ.
FAtan2(y, x) ==
    IF IsNaN(y) \/ IsNaN(x) THEN NaN
    ELSE IF IsInf(y) /\ IsInf(x)
         THEN Fin(y.n * (IF x.n > 0 THEN HalfPiQ \div 2 ELSE PiQ - HalfPiQ \div 2))
    ELSE IF IsInf(y) THEN Fin(y.n * HalfPiQ)
    ELSE IF IsInf(x) THEN (IF x.n > 0 THEN Zero
                           ELSE Fin(IF y.n < 0 THEN -PiQ ELSE PiQ))
    ELSE IF y.n = 0 /\ x.n = 0 THEN Zero
    ELSE LET ay == AbsI(y.n)
             ax == AbsI(x.n)
             hyp == ISqrt(ax * ax + ay * ay)
             base == IF ax >= ay THEN HalfPiQ - AcosQ(RoundDiv(ay * Scale, hyp))
                     ELSE AcosQ(RoundDiv(ax * Scale, hyp))
             up == IF x.n < 0 THEN PiQ - base ELSE base
         IN Fin(IF y.n < 0 THEN -up ELSE up)

-----------------------------------------------------------------------------
(* The heap: a sequence of vector cells; a pointer is an index into it. *)

\* What a function hands back: the heap it leaves, the pointer it returns
\* (p2: the second one; 0: none), the number it returns (NaN when none), the
\* boolean it returns, whether it returns a non-nil error, and whether it
\* panicked instead of returning.
Ret(h, p) ==
    [h |-> h, p |-> p, p2 |-> 0, val |-> NaN, val2 |-> NaN, b |-> FALSE,
     err |-> FALSE, panic |-> FALSE]
RetVal(h, val) == [Ret(h, 0) EXCEPT !.val = val]
RetBool(h, b) == [Ret(h, 0) EXCEPT !.b = b]
RetErr(h) == [Ret(h, 0) EXCEPT !.err = TRUE]
RetPanic(h) == [Ret(h, 0) EXCEPT !.panic = TRUE]

\* &Vector{...}: a fresh cell.
Alloc(h, vec) == Ret(Append(h, vec), Len(h) + 1)

\* The k-th cell allocated after the heap was h.
Fresh(h, k) == Len(h) + k

\* The last of the variadic arguments in place of the first.
Optional_Last(args, default) == IF Len(args) >= 1 THEN args[Len(args)] ELSE default

\* The optional argument of a variadic parameter, args being what was passed.
Optional(args, default) == IF Len(args) >= 1 THEN args[1] ELSE default

-----------------------------------------------------------------------------
(* package vector: the 3D vector *)

Vector(x, y, z) == [X |-> x, Y |-> y, Z |-> z]

\* The default tolerance of Equal, 1e-7, in quanta.
DefaultTolerance == 1

V3_New(h, x, y, z) == Alloc(h, Vector(x, y, z))

V3_zero(h) == Alloc(h, Vector(Zero, Zero, Zero))

V3_FromAngles(h, thetha, phi, length) ==
    LET l == Optional(length, One)
        cosPhi == FCos(phi)
        sinPhi == FSin(phi)
        cosTheta == FCos(thetha)
        sinTheta == FSin(thetha)
    IN Alloc(h, Vector(FMul(FMul(l, cosTheta), sinPhi),
                       FMul(FMul(l, sinTheta), sinPhi),
                       FMul(l, cosPhi)))

\* r1 and r2 are the two draws of rand.Float32(), in [0, 1).
V3_Random(h, length, r1, r2) ==
    LET l == Optional(length, One)
        thetha == FMul(r1, Fin(TwoPiQ))
        phi == FMul(r2, Fin(TwoPiQ))
    IN V3_FromAngles(h, thetha, phi, <<l>>)

\* Equal with the tolerance passed taken as the bound itself, t = tolerance[0]
\* in place of t += tolerance[0].
Equal_ExactTolerance(h, v, v2, tolerance) ==
    LET t == Optional(tolerance, Fin(DefaultTolerance))
    IN IF FGt(FAbs(FSub(h[v].X, h[v2].X)), t) THEN FALSE
       ELSE IF FGt(FAbs(FSub(h[v].Y, h[v2].Y)), t) THEN FALSE
       ELSE IF FGt(FAbs(FSub(h[v].Z, h[v2].Z)), t) THEN FALSE
       ELSE TRUE

V3m_Equal(h, v, v2, tolerance) ==
    LET t == IF Len(tolerance) >= 1
             THEN FAdd(Fin(DefaultTolerance), tolerance[1])
             ELSE Fin(DefaultTolerance)
    IN IF FGt(FAbs(FSub(h[v].X, h[v2].X)), t) THEN FALSE
       ELSE IF FGt(FAbs(FSub(h[v].Y, h[v2].Y)), t) THEN FALSE
       ELSE IF FGt(FAbs(FSub(h[v].Z, h[v2].Z)), t) THEN FALSE
       ELSE TRUE

isZero(h, v) == FEq(h[v].X, Zero) /\ FEq(h[v].Y, Zero) /\ FEq(h[v].Z, Zero)

\* Copy returning the receiver itself.
Copy_SameInstance(h, v) == Ret(h, v)

V3m_Copy(h, v) == Alloc(h, Vector(h[v].X, h[v].Y, h[v].Z))

V3_Copy(h, v) == Alloc(h, Vector(h[v].X, h[v].Y, h[v].Z))

V3m_Assign(h, v1, v2) ==
    LET h1 == [h EXCEPT ![v1].X = h[v2].X]
        h2 == [h1 EXCEPT ![v1].Y = h1[v2].Y]
        h3 == [h2 EXCEPT ![v1].Z = h2[v2].Z]
    IN Ret(h3, v1)

V3m_MagSq(h, v) ==
    FAdd(FAdd(FMul(h[v].X, h[v].X), FMul(h[v].Y, h[v].Y)), FMul(h[v].Z, h[v].Z))

V3m_Mag(h, v) == FSqrt(V3m_MagSq(h, v))

V3m_Normalize(h, v) ==
    LET mag == V3m_Mag(h, v)
    IN IF ~FEq(mag, Zero)
       THEN Ret([h EXCEPT ![v] = Vector(FDiv(h[v].X, mag), FDiv(h[v].Y, mag),
                                        FDiv(h[v].Z, mag))], v)
       ELSE Ret(h, v)

V3_Unit(h, v) ==
    LET m == V3m_Mag(h, v)
    IN IF FEq(m, Zero) THEN Alloc(h, Vector(Zero, Zero, Zero))
       ELSE Alloc(h, Vector(FDiv(h[v].X, m), FDiv(h[v].Y, m), FDiv(h[v].Z, m)))

V3m_Mult(h, v, scalar) ==
    Ret([h EXCEPT ![v] = Vector(FMul(h[v].X, scalar), FMul(h[v].Y, scalar),
                                FMul(h[v].Z, scalar))], v)

\* Resize without the Normalize: v.Mult(mag) alone.
Resize_NoNormalize(h, v, mag) == V3m_Mult(h, v, mag)

V3m_Resize(h, v, mag) ==
    LET n == V3m_Normalize(h, v)
        m == V3m_Mult(n.h, v, mag)
    IN Ret(m.h, v)

V3m_Add(h, v, v2) ==
    LET h1 == [h EXCEPT ![v].X = FAdd(h[v].X, h[v2].X)]
        h2 == [h1 EXCEPT ![v].Y = FAdd(h1[v].Y, h1[v2].Y)]
        h3 == [h2 EXCEPT ![v].Z = FAdd(h2[v].Z, h2[v2].Z)]
    IN Ret(h3, v)

V3_Add(h, v1, v2) ==
    Alloc(h, Vector(FAdd(h[v1].X, h[v2].X), FAdd(h[v1].Y, h[v2].Y),
                    FAdd(h[v1].Z, h[v2].Z)))

\* Sub with the operands exchanged: v = v2 - v.
Sub_Reversed(h, v, v2) ==
    Ret([h EXCEPT ![v] = Vector(FSub(h[v2].X, h[v].X), FSub(h[v2].Y, h[v].Y),
                                FSub(h[v2].Z, h[v].Z))], v)

V3m_Sub(h, v, v2) ==
    LET h1 == [h EXCEPT ![v].X = FSub(h[v].X, h[v2].X)]
        h2 == [h1 EXCEPT ![v].Y = FSub(h1[v].Y, h1[v2].Y)]
        h3 == [h2 EXCEPT ![v].Z = FSub(h2[v].Z, h2[v2].Z)]
    IN Ret(h3, v)

V3_Sub(h, v1, v2) ==
    Alloc(h, Vector(FSub(h[v1].X, h[v2].X), FSub(h[v1].Y, h[v2].Y),
                    FSub(h[v1].Z, h[v2].Z)))

V3_Dist(h, v1, v2) ==
    LET d == V3_Sub(h, v1, v2)
    IN RetVal(d.h, V3m_Mag(d.h, d.p))

V3m_Dist(h, v, v2) == V3_Dist(h, v, v2)

V3_Dot(h, v1, v2) ==
    FAdd(FAdd(FMul(h[v1].X, h[v2].X), FMul(h[v1].Y, h[v2].Y)),
         FMul(h[v1].Z, h[v2].Z))

V3m_Dot(h, v, v2) == V3_Dot(h, v, v2)

\* Cross with the operands of every difference exchanged: the left-handed
\* product.
Cross_LeftHanded(h, v1, v2) ==
    Alloc(h, Vector(FSub(FMul(h[v1].Z, h[v2].Y), FMul(h[v1].Y, h[v2].Z)),
                    FSub(FMul(h[v1].X, h[v2].Z), FMul(h[v1].Z, h[v2].X)),
                    FSub(FMul(h[v1].Y, h[v2].X), FMul(h[v1].X, h[v2].Y))))

V3_Cross(h, v1, v2) ==
    Alloc(h, Vector(FSub(FMul(h[v1].Y, h[v2].Z), FMul(h[v1].Z, h[v2].Y)),
                    FSub(FMul(h[v1].Z, h[v2].X), FMul(h[v1].X, h[v2].Z)),
                    FSub(FMul(h[v1].X, h[v2].Y), FMul(h[v1].Y, h[v2].X))))

V3m_Cross(h, v, v2) == V3_Cross(h, v, v2)

V3_Angle(h, v1, v2) ==
    LET m1 == V3m_Mag(h, v1)
        m2 == V3m_Mag(h, v2)
    IN IF FEq(m1, Zero) \/ FEq(m2, Zero) THEN NaN
       ELSE FAcos(FDiv(V3_Dot(h, v1, v2), FMul(m1, m2)))

V3m_Angle(h, v, v2) == V3_Angle(h, v, v2)

\* Heading with phi = acos(z) in place of acos(z / m).
Heading_AcosOfZ(h, v) ==
    LET m == V3m_Mag(h, v)
        theta == FAtan2(h[v].Y, h[v].X)
    IN IF FEq(m, Zero) THEN [RetVal(h, theta) EXCEPT !.val2 = NaN]
       ELSE [RetVal(h, theta) EXCEPT !.val2 = FAcos(h[v].Z)]

V3m_Heading(h, v) ==
    LET m == V3m_Mag(h, v)
        theta == FAtan2(h[v].Y, h[v].X)
    IN IF FEq(m, Zero) THEN [RetVal(h, theta) EXCEPT !.val2 = NaN]
       ELSE [RetVal(h, theta) EXCEPT !.val2 = FAcos(FDiv(h[v].Z, m))]

V3m_SetHeading(h, v, thetha, phi) ==
    LET l == V3m_Mag(h, v)
        cosPhi == FCos(phi)
        sinPhi == FSin(phi)
        cosTheta == FCos(thetha)
        sinTheta == FSin(thetha)
    IN Ret([h EXCEPT ![v] = Vector(FMul(FMul(l, cosTheta), sinPhi),
                                   FMul(FMul(l, sinTheta), sinPhi),
                                   FMul(l, cosPhi))], v)

\* rotateOnPlane without V.Add(nv): v.Copy().Mult(cos) is returned.
rotateOnPlane_CosOnly(h, v, normal, angle) ==
    LET h1 == V3_Unit(h, normal).h
        h2 == V3_Cross(h1, Fresh(h, 1), v).h
        h3 == V3m_Mult(h2, Fresh(h, 2), FSin(angle)).h
        h4 == V3m_Copy(h3, v).h
        h5 == V3m_Mult(h4, Fresh(h, 3), FCos(angle)).h
    IN Ret(h5, Fresh(h, 3))

\* sin, cos := Sin(angle), Cos(angle); nv := Cross(Unit(normal), v);
\* nv.Mult(sin); V := v.Copy().Mult(cos); V.Add(nv); return V.
\* Unit, Cross and Copy allocate the cells Fresh(h, 1), Fresh(h, 2), Fresh(h, 3).
V3_rotateOnPlane(h, v, normal, angle) ==
    LET h1 == V3_Unit(h, normal).h
        h2 == V3_Cross(h1, Fresh(h, 1), v).h
        h3 == V3m_Mult(h2, Fresh(h, 2), FSin(angle)).h
        h4 == V3m_Copy(h3, v).h
        h5 == V3m_Mult(h4, Fresh(h, 3), FCos(angle)).h
        h6 == V3m_Add(h5, Fresh(h, 3), Fresh(h, 2)).h
    IN Ret(h6, Fresh(h, 3))

\* v.Assign(r) returning r, what the free function returned, in place of v.
AssignFrom_ReturnsResult(r, v) == Ret(V3m_Assign(r.h, v, r.p).h, r.p)

\* v.Assign(r): r is what the free function returned, heap and pointer.
V3m_AssignFrom(r, v) == Ret(V3m_Assign(r.h, v, r.p).h, v)

V3m_rotateOnPlane(h, v, normal, angle) ==
    V3m_AssignFrom(V3_rotateOnPlane(h, v, normal, angle), v)

\* Component without the Normalize: parallel := axis.Copy() alone.
Component_NoNormalize(h, v, axis) ==
    IF isZero(h, axis)
    THEN [Ret(V3_zero(V3_zero(h).h).h, Fresh(h, 1)) EXCEPT !.p2 = Fresh(h, 2)]
    ELSE LET h1 == V3m_Copy(h, axis).h
             h3 == V3m_Mult(h1, Fresh(h, 1), V3_Dot(h1, v, Fresh(h, 1))).h
             h4 == V3_Sub(h3, v, Fresh(h, 1)).h
         IN [Ret(h4, Fresh(h, 1)) EXCEPT !.p2 = Fresh(h, 2)]

\* Component without the Copy of the axis: axis.Normalize() acts on the
\* caller's axis, and parallel is a copy of it taken afterwards.
Component_InPlace(h, v, axis) ==
    IF isZero(h, axis)
    THEN [Ret(V3_zero(V3_zero(h).h).h, Fresh(h, 1)) EXCEPT !.p2 = Fresh(h, 2)]
    ELSE LET h1 == V3m_Normalize(h, axis).h
             h2 == V3m_Copy(h1, axis).h
             h3 == V3m_Mult(h2, Fresh(h, 1), V3_Dot(h2, v, Fresh(h, 1))).h
             h4 == V3_Sub(h3, v, Fresh(h, 1)).h
         IN [Ret(h4, Fresh(h, 1)) EXCEPT !.p2 = Fresh(h, 2)]

\* p is the parallel component, p2 the perpendicular one.  For a non-zero
\* axis: parallel := axis.Copy().Normalize(), the cell Fresh(h, 1);
\* parallel.Mult(Dot(v, parallel)); perpendicular := Sub(v, parallel), the
\* cell Fresh(h, 2).
V3m_Component(h, v, axis) ==
    IF isZero(h, axis)
    THEN [Ret(V3_zero(V3_zero(h).h).h, Fresh(h, 1)) EXCEPT !.p2 = Fresh(h, 2)]
    ELSE LET h1 == V3m_Copy(h, axis).h
             h2 == V3m_Normalize(h1, Fresh(h, 1)).h
             h3 == V3m_Mult(h2, Fresh(h, 1), V3_Dot(h2, v, Fresh(h, 1))).h
             h4 == V3_Sub(h3, v, Fresh(h, 1)).h
         IN [Ret(h4, Fresh(h, 1)) EXCEPT !.p2 = Fresh(h, 2)]

\* perpendicular.rotateOnPlane(axis, angle); return parallel.Add(perpendicular):
\* c is what v.Component(axis) returned.
RotateAlongAxis_sum(c, axis, angle) ==
    Ret(V3m_Add(V3m_rotateOnPlane(c.h, c.p2, axis, angle).h, c.p, c.p2).h, c.p)

\* RotateAlongAxis without the test of the axis.
RotateAlongAxis_Unguarded(h, v, axis, angle) ==
    RotateAlongAxis_sum(V3m_Component(h, v, axis), axis, angle)

V3_RotateAlongAxis(h, v, axis, angle) ==
    IF isZero(h, axis) THEN Ret(h, v)
    ELSE RotateAlongAxis_sum(V3m_Component(h, v, axis), axis, angle)

V3m_RotateAlongAxis(h, v, axis, angle) ==
    V3m_AssignFrom(V3_RotateAlongAxis(h, v, axis, angle), v)

\* ReflectThroughPlane without the Copy: normal.Normalize() and normal.Mult
\* act on the caller's normal.
ReflectThroughPlane_InPlace(h, v, normal) ==
    IF isZero(h, normal) THEN Ret(h, v)
    ELSE LET h2 == V3m_Normalize(h, normal).h
             h3 == V3m_Mult(h2, normal, FMul(Fin(2 * Scale), V3_Dot(h2, v, normal))).h
         IN V3_Sub(h3, v, normal)

\* ReflectThroughPlane with Dot(v, n) in place of 2 * Dot(v, n): the
\* projection onto the plane.
ReflectThroughPlane_Project(h, v, normal) ==
    IF isZero(h, normal) THEN Ret(h, v)
    ELSE LET h1 == V3m_Copy(h, normal).h
             h2 == V3m_Normalize(h1, Fresh(h, 1)).h
             h3 == V3m_Mult(h2, Fresh(h, 1), V3_Dot(h2, v, Fresh(h, 1))).h
         IN V3_Sub(h3, v, Fresh(h, 1))

\* n := normal.Copy().Normalize(), the cell Fresh(h, 1);
\* return Sub(v, n.Mult(2 * Dot(v, n))).
V3_ReflectThroughPlane(h, v, normal) ==
    IF isZero(h, normal) THEN Ret(h, v)
    ELSE LET h1 == V3m_Copy(h, normal).h
             h2 == V3m_Normalize(h1, Fresh(h, 1)).h
             h3 == V3m_Mult(h2, Fresh(h, 1),
                            FMul(Fin(2 * Scale), V3_Dot(h2, v, Fresh(h, 1)))).h
         IN V3_Sub(h3, v, Fresh(h, 1))

V3m_ReflectThroughPlane(h, v, normal) ==
    V3m_AssignFrom(V3_ReflectThroughPlane(h, v, normal), v)

\* lerpf with t clamped to [0, 1].
lerpf_Clamped(a, b, t) == FAdd(a, FMul(FSub(b, a), FMax(Zero, FMin(One, t))))

lerpf(a, b, t) == FAdd(a, FMul(FSub(b, a), t))

V3_Lerp(h, v1, v2, t) ==
    Alloc(h, Vector(lerpf(h[v1].X, h[v2].X, t), lerpf(h[v1].Y, h[v2].Y, t),
                    lerpf(h[v1].Z, h[v2].Z, t)))

\* n and i are Go ints; float32(i) / float32(n).
V3_Lerp2(h, v1, v2, n, i) ==
    LET r == FDiv(Rnd(i * Scale), Rnd(n * Scale))
    IN V3_Lerp(h, v1, v2, r)

-----------------------------------------------------------------------------
(* package vector2d: the 2D vector with float32 parameters *)

Vector2D(x, y) == [X |-> x, Y |-> y]

V2_New(h, x, y) == Alloc(h, Vector2D(x, y))

V2_FromAngle(h, angle, length) ==
    LET l == Optional(length, One)
    IN Alloc(h, Vector2D(FMul(FCos(angle), l), FMul(FSin(angle), l)))

\* r is the draw of rand.Float32(), in [0, 1).
V2_Random(h, length, r) ==
    LET l == Optional(length, One)
        ang == FMul(r, Fin(TwoPiQ))
    IN V2_FromAngle(h, ang, <<l>>)

\* Equal without math.Abs: the signed difference is compared.
Equal_Signed(h, v, v2, tolerance) ==
    LET t == Optional(tolerance, Zero)
    IN IF FGt(FSub(h[v].X, h[v2].X), t) THEN FALSE
       ELSE IF FGt(FSub(h[v].Y, h[v2].Y), t) THEN FALSE
       ELSE TRUE

\* Equal with the default tolerance of package vector, 1e-7, in place of 0.
Equal_DefaultTolerance(h, v, v2, tolerance) ==
    LET t == Optional(tolerance, Fin(DefaultTolerance))
    IN IF FGt(FAbs(FSub(h[v].X, h[v2].X)), t) THEN FALSE
       ELSE IF FGt(FAbs(FSub(h[v].Y, h[v2].Y)), t) THEN FALSE
       ELSE TRUE

V2m_Equal(h, v, v2, tolerance) ==
    LET t == Optional(tolerance, Zero)
    IN IF FGt(FAbs(FSub(h[v].X, h[v2].X)), t) THEN FALSE
       ELSE IF FGt(FAbs(FSub(h[v].Y, h[v2].Y)), t) THEN FALSE
       ELSE TRUE

V2m_Copy(h, v) == Alloc(h, Vector2D(h[v].X, h[v].Y))

V2m_MagSq(h, v) == FAdd(FMul(h[v].X, h[v].X), FMul(h[v].Y, h[v].Y))

V2m_Mag(h, v) == FSqrt(V2m_MagSq(h, v))

V2m_Heading(h, v) == FAtan2(h[v].Y, h[v].X)

V2m_Normalize(h, v) ==
    LET m == V2m_Mag(h, v)
    IN IF FEq(m, Zero) THEN Ret(h, v)
       ELSE Ret([h EXCEPT ![v] = Vector2D(FDiv(h[v].X, m), FDiv(h[v].Y, m))], v)

V2m_Resize(h, v, mag) ==
    LET m == V2m_Mag(h, v)
    IN IF FEq(m, Zero) THEN Ret(h, v)
       ELSE Ret([h EXCEPT ![v] = Vector2D(FDiv(FMul(h[v].X, mag), m),
                                          FDiv(FMul(h[v].Y, mag), m))], v)

\* Add storing the sum in the argument as well as in the receiver.
Add_IntoBoth(h, v, v2) ==
    LET sum == Vector2D(FAdd(h[v].X, h[v2].X), FAdd(h[v].Y, h[v2].Y))
    IN Ret([h EXCEPT ![v] = sum, ![v2] = sum], v)

V2m_Add(h, v, v2) ==
    LET h1 == [h EXCEPT ![v].X = FAdd(h[v].X, h[v2].X)]
        h2 == [h1 EXCEPT ![v].Y = FAdd(h1[v].Y, h1[v2].Y)]
    IN Ret(h2, v)

V2m_Sub(h, v, v2) ==
    LET h1 == [h EXCEPT ![v].X = FSub(h[v].X, h[v2].X)]
        h2 == [h1 EXCEPT ![v].Y = FSub(h1[v].Y, h1[v2].Y)]
    IN Ret(h2, v)

V2m_Mult(h, v, scalar) ==
    Ret([h EXCEPT ![v] = Vector2D(FMul(h[v].X, scalar), FMul(h[v].Y, scalar))], v)

V2m_Rotate(h, v, angle) ==
    LET newHeading == FAdd(V2m_Heading(h, v), angle)
        m == V2m_Mag(h, v)
    IN Ret([h EXCEPT ![v] = Vector2D(FMul(FCos(newHeading), m),
                                     FMul(FSin(newHeading), m))], v)

\* SetHeading without the magnitude: the unit vector of the angle is stored.
SetHeading_Unit(h, v, angle) ==
    Ret([h EXCEPT ![v] = Vector2D(FCos(angle), FSin(angle))], v)

V2m_SetHeading(h, v, angle) ==
    LET m == V2m_Mag(h, v)
    IN Ret([h EXCEPT ![v] = Vector2D(FMul(FCos(angle), m), FMul(FSin(angle), m))], v)

V2_Copy(h, v) == Alloc(h, Vector2D(h[v].X, h[v].Y))

V2_Unit(h, v) ==
    LET m == V2m_Mag(h, v)
    IN IF FEq(m, Zero) THEN Alloc(h, Vector2D(Zero, Zero))
       ELSE Alloc(h, Vector2D(FDiv(h[v].X, m), FDiv(h[v].Y, m)))

V2_Add(h, v1, v2) == Alloc(h, Vector2D(FAdd(h[v1].X, h[v2].X), FAdd(h[v1].Y, h[v2].Y)))

V2_Sub(h, v1, v2) == Alloc(h, Vector2D(FSub(h[v1].X, h[v2].X), FSub(h[v1].Y, h[v2].Y)))

V2_Dot(h, v1, v2) == FAdd(FMul(h[v1].X, h[v2].X), FMul(h[v1].Y, h[v2].Y))

V2_Cross(h, v1, v2) == FSub(FMul(h[v1].X, h[v2].Y), FMul(h[v1].Y, h[v2].X))

V2m_Dist(h, v, v2) ==
    LET sV == V2_Sub(h, v, v2)
    IN RetVal(sV.h, V2m_Mag(sV.h, sV.p))

V2m_Dot(h, v, v2) == FAdd(FMul(h[v].X, h[v2].X), FMul(h[v].Y, h[v2].Y))

V2m_Cross(h, v, v2) == FSub(FMul(h[v].X, h[v2].Y), FMul(h[v].Y, h[v2].X))

\* AngleBetween without the sign: the angle is never negated.
AngleBetween_Unsigned(h, v1, v2) ==
    LET m1 == V2m_Mag(h, v1)
        m2 == V2m_Mag(h, v2)
        dotMag == FDiv(V2_Dot(h, v1, v2), FMul(m1, m2))
        angle == FAcos(FMin(One, FMax(FNeg(One), dotMag)))
    IN IF FEq(m1, Zero) \/ FEq(m2, Zero) THEN NaN ELSE angle

V2_AngleBetween(h, v1, v2) ==
    LET m1 == V2m_Mag(h, v1)
        m2 == V2m_Mag(h, v2)
        dotMag == FDiv(V2_Dot(h, v1, v2), FMul(m1, m2))
        angle == FAcos(FMin(One, FMax(FNeg(One), dotMag)))
        sign == FLt(V2_Cross(h, v1, v2), Zero)
    IN IF FEq(m1, Zero) \/ FEq(m2, Zero) THEN NaN
       ELSE IF sign THEN FNeg(angle) ELSE angle

V2m_AngleBetween(h, v, v2) ==
    LET m1 == V2m_Mag(h, v)
        m2 == V2m_Mag(h, v2)
        dotMag == FDiv(V2_Dot(h, v, v2), FMul(m1, m2))
        angle == FAcos(FMin(One, FMax(FNeg(One), dotMag)))
        sign == FLt(V2_Cross(h, v, v2), Zero)
    IN IF FEq(m1, Zero) \/ FEq(m2, Zero) THEN NaN
       ELSE IF sign THEN FNeg(angle) ELSE angle

-----------------------------------------------------------------------------
(* package vector2d (vector2d-generic): the 2D vector with interface{}      *)
(* parameters.  A Vector2D argument or result is a value; a result is held  *)
(* in a fresh cell, the variable of the caller that receives it.            *)

\* An interface{} value: its dynamic type and, for a number or a pointer to a
\* number, the number (for an int: the integer, not in quanta).
Dyn(t, v) == [t |-> t, v |-> v]
DynNil == Dyn("nil", NaN)
DynNilPtr == Dyn("*float32(nil)", NaN)
DynString == Dyn("string", NaN)
DynFloat(f) == Dyn("float32", f)
DynPtr(f) == Dyn("*float32", f)
DynInt(i) == Dyn("int", Fin(i))

\* reflect.Value.Type panics on the zero Value, which is what reflect.ValueOf
\* gives for a nil interface and reflect.Indirect for a nil pointer.
TypeOfPanics(unk) == unk.t \in {"nil", "*float32(nil)"}

\* (reflect.Type).ConvertibleTo(float32) of the value Indirect leaves.
ConvertibleTo(unk) == unk.t \in {"float32", "*float32", "int"}

\* Value.Convert(floatType).Float() as a float32.
Convert(unk) == IF unk.t = "int" THEN Rnd(unk.v.n * Scale) ELSE unk.v

getFloat(unk) ==
    IF TypeOfPanics(unk) THEN [val |-> Zero, err |-> FALSE, panic |-> TRUE]
    ELSE IF ~ConvertibleTo(unk) THEN [val |-> Zero, err |-> TRUE, panic |-> FALSE]
    ELSE [val |-> Convert(unk), err |-> FALSE, panic |-> FALSE]

\* Vector2D{}, err: the zero-value vector and an error.
GZeroErr(h) == [Alloc(h, Vector2D(Zero, Zero)) EXCEPT !.err = TRUE]

vector2d(h, X, Y) ==
    LET x == getFloat(X)
        y == getFloat(Y)
    IN IF x.panic THEN RetPanic(h)
       ELSE IF x.err THEN GZeroErr(h)
       ELSE IF y.panic THEN RetPanic(h)
       ELSE IF y.err THEN GZeroErr(h)
       ELSE Alloc(h, Vector2D(x.val, y.val))

G_New(h, x, y) == vector2d(h, x, y)

G_FromAngle(h, angle, length) ==
    LET ang == getFloat(angle)
        l == IF Len(length) = 1 THEN getFloat(length[1])
             ELSE [val |-> One, err |-> FALSE, panic |-> FALSE]
    IN IF ang.panic THEN RetPanic(h)
       ELSE IF ang.err THEN GZeroErr(h)
       ELSE IF Len(length) > 1 THEN GZeroErr(h)
       ELSE IF l.panic THEN RetPanic(h)
       ELSE IF l.err THEN GZeroErr(h)
       ELSE Alloc(h, Vector2D(FMul(FCos(ang.val), l.val), FMul(FSin(ang.val), l.val)))

\* r is the draw of rand.Float32(), in [0, 1).
G_Random(h, length, r) ==
    LET l == IF Len(length) = 1 THEN getFloat(length[1])
             ELSE [val |-> One, err |-> FALSE, panic |-> FALSE]
        ang == FMul(r, Fin(TwoPiQ))
    IN IF Len(length) > 1 THEN GZeroErr(h)
       ELSE IF l.panic THEN RetPanic(h)
       ELSE IF l.err THEN GZeroErr(h)
       ELSE G_FromAngle(h, DynFloat(ang), <<DynFloat(l.val)>>)

Gm_Equal(h, v, v2, tolerance) ==
    LET t == IF Len(tolerance) = 1 THEN getFloat(tolerance[1])
             ELSE [val |-> Zero, err |-> FALSE, panic |-> FALSE]
    IN IF Len(tolerance) > 1 THEN [RetBool(h, FALSE) EXCEPT !.err = TRUE]
       ELSE IF t.panic THEN RetPanic(h)
       ELSE IF t.err THEN [RetBool(h, FALSE) EXCEPT !.err = TRUE]
       ELSE IF FGt(FAbs(FSub(h[v].X, v2.X)), t.val) THEN RetBool(h, FALSE)
       ELSE IF FGt(FAbs(FSub(h[v].Y, v2.Y)), t.val) THEN RetBool(h, FALSE)
       ELSE RetBool(h, TRUE)

Gm_Copy(h, v) == Alloc(h, Vector2D(v.X, v.Y))

Gm_MagSq(v) == FAdd(FMul(v.X, v.X), FMul(v.Y, v.Y))

Gm_Mag(v) == FSqrt(Gm_MagSq(v))

Gm_Heading(v) == FAtan2(v.Y, v.X)

\* Normalize without the test of the magnitude.
Normalize_Unchecked(h, v) ==
    LET m == Gm_Mag(h[v])
    IN Ret([h EXCEPT ![v] = Vector2D(FDiv(h[v].X, m), FDiv(h[v].Y, m))], 0)

Gm_Normalize(h, v) ==
    LET m == Gm_Mag(h[v])
    IN IF FEq(m, Zero) THEN Ret(h, 0)
       ELSE Ret([h EXCEPT ![v] = Vector2D(FDiv(h[v].X, m), FDiv(h[v].Y, m))], 0)

Gm_Resize(h, v, len) ==
    LET A == getFloat(len)
        m == Gm_Mag(h[v])
    IN IF A.panic THEN RetPanic(h)
       ELSE IF A.err THEN RetErr(h)
       ELSE IF FEq(m, Zero) THEN Ret(h, 0)
       ELSE Ret([h EXCEPT ![v] = Vector2D(FDiv(FMul(h[v].X, A.val), m),
                                          FDiv(FMul(h[v].Y, A.val), m))], 0)

Gm_Add(h, v, v2) ==
    Ret([h EXCEPT ![v] = Vector2D(FAdd(h[v].X, v2.X), FAdd(h[v].Y, v2.Y))], 0)

Gm_Sub(h, v, v2) ==
    Ret([h EXCEPT ![v] = Vector2D(FSub(h[v].X, v2.X), FSub(h[v].Y, v2.Y))], 0)

Gm_Mult(h, v, scalar) ==
    LET A == getFloat(scalar)
    IN IF A.panic THEN RetPanic(h)
       ELSE IF A.err THEN RetErr(h)
       ELSE Ret([h EXCEPT ![v] = Vector2D(FMul(h[v].X, A.val), FMul(h[v].Y, A.val))], 0)

\* Div without the test A == 0.
Div_Unchecked(h, v, scalar) ==
    LET A == getFloat(scalar)
    IN IF A.panic THEN RetPanic(h)
       ELSE IF A.err THEN RetErr(h)
       ELSE Ret([h EXCEPT ![v] = Vector2D(FDiv(h[v].X, A.val), FDiv(h[v].Y, A.val))], 0)

Gm_Div(h, v, scalar) ==
    LET A == getFloat(scalar)
    IN IF A.panic THEN RetPanic(h)
       ELSE IF A.err THEN RetErr(h)
       ELSE IF FEq(A.val, Zero) THEN RetErr(h)
       ELSE Ret([h EXCEPT ![v] = Vector2D(FDiv(h[v].X, A.val), FDiv(h[v].Y, A.val))], 0)

Gm_Rotate(h, v, angle) ==
    LET ang == getFloat(angle)
        newHeading == FAdd(Gm_Heading(h[v]), ang.val)
        m == Gm_Mag(h[v])
    IN IF ang.panic THEN RetPanic(h)
       ELSE IF ang.err THEN RetErr(h)
       ELSE Ret([h EXCEPT ![v] = Vector2D(FMul(FCos(newHeading), m),
                                          FMul(FSin(newHeading), m))], 0)

Gm_SetHeading(h, v, angle) ==
    LET ang == getFloat(angle)
        m == Gm_Mag(h[v])
    IN IF ang.panic THEN RetPanic(h)
       ELSE IF ang.err THEN RetErr(h)
       ELSE Ret([h EXCEPT ![v] = Vector2D(FMul(FCos(ang.val), m),
                                          FMul(FSin(ang.val), m))], 0)

G_Copy(h, v) == Alloc(h, Vector2D(v.X, v.Y))

G_Unit(h, v) ==
    LET m == Gm_Mag(v)
    IN IF FEq(m, Zero) THEN Alloc(h, Vector2D(Zero, Zero))
       ELSE Alloc(h, Vector2D(FDiv(v.X, m), FDiv(v.Y, m)))

G_Add(h, v1, v2) == Alloc(h, Vector2D(FAdd(v1.X, v2.X), FAdd(v1.Y, v2.Y)))

G_Sub(h, v1, v2) == Alloc(h, Vector2D(FSub(v1.X, v2.X), FSub(v1.Y, v2.Y)))

G_Dot(v1, v2) == FAdd(FMul(v1.X, v2.X), FMul(v1.Y, v2.Y))

G_Cross(v1, v2) == FSub(FMul(v1.X, v2.Y), FMul(v1.Y, v2.X))

Gm_Dist(h, v, v2) ==
    LET sV == G_Sub(h, v, v2)
    IN RetVal(sV.h, Gm_Mag(sV.h[sV.p]))

Gm_Dot(v, v2) == FAdd(FMul(v.X, v2.X), FMul(v.Y, v2.Y))

Gm_Cross(v, v2) == FSub(FMul(v.X, v2.Y), FMul(v.Y, v2.X))

\* AngleBetween of the generic package returning NaN and no error for a zero
\* magnitude, as the static package does.
AngleBetween_NoError(h, v1, v2) ==
    LET m1 == Gm_Mag(v1)
        m2 == Gm_Mag(v2)
        dotMag == FDiv(G_Dot(v1, v2), FMul(m1, m2))
        angle == FAcos(FMin(One, FMax(FNeg(One), dotMag)))
        sign == FLt(G_Cross(v1, v2), Zero)
    IN IF FEq(m1, Zero) \/ FEq(m2, Zero) THEN RetVal(h, NaN)
       ELSE IF sign THEN RetVal(h, FNeg(angle)) ELSE RetVal(h, angle)

G_AngleBetween(h, v1, v2) ==
    LET m1 == Gm_Mag(v1)
        m2 == Gm_Mag(v2)
        dotMag == FDiv(G_Dot(v1, v2), FMul(m1, m2))
        angle == FAcos(FMin(One, FMax(FNeg(One), dotMag)))
        sign == FLt(G_Cross(v1, v2), Zero)
    IN IF FEq(m1, Zero) \/ FEq(m2, Zero) THEN [RetVal(h, Zero) EXCEPT !.err = TRUE]
       ELSE IF sign THEN RetVal(h, FNeg(angle)) ELSE RetVal(h, angle)

Gm_AngleBetween(h, v, v2) ==
    LET m1 == Gm_Mag(v)
        m2 == Gm_Mag(v2)
        dotMag == FDiv(G_Dot(v, v2), FMul(m1, m2))
        angle == FAcos(FMin(One, FMax(FNeg(One), dotMag)))
        sign == FLt(G_Cross(v, v2), Zero)
    IN IF FEq(m1, Zero) \/ FEq(m2, Zero) THEN [RetVal(h, Zero) EXCEPT !.err = TRUE]
       ELSE IF sign THEN RetVal(h, FNeg(angle)) ELSE RetVal(h, angle)

-----------------------------------------------------------------------------
(* The state machine *)

VARIABLES
    pkg,    \* the package the run uses: "none" until its first call
    heap,   \* the vector cells allocated so far
    pc,     \* "new": allocating the operands; "done": the call has returned;
            \* "touched": the caller has written to a component afterwards
    call,   \* the call made: what was passed, what came back, the heap before,
            \* and the cell written to afterwards (touched; 0: none)
    imports,  \* the packages of the repository the program imports
    inited,   \* the packages whose init() has run
    rand      \* the global source of math/rand: the number of rand.Seed calls
              \* made, the last seed, and the draws made since

vars == <<pkg, heap, pc, call, imports, inited, rand>>

\* The component values the constructors are called with: zero, one quantum
\* (its square underflows), ordinary values, and the largest finite value (its
\* square overflows).
XVals == {Zero, Fin(1), One, Fin(-3 * Scale), Fin(MaxF)}
YVals == {Zero, Fin(2 * Scale), Fin(-4 * Scale)}

\* Scalars passed as magnitude, factor or interpolation parameter.
Scalars == {Zero, Fin(Scale \div 2), Fin(3 * Scale), Fin(-Scale), Fin(MaxF), PInf}

\* Angles passed, in radians.
Angles == {Zero, Fin(HalfPiQ), Fin(PiQ), Fin(TwoPiQ), Fin(-Scale)}

\* The variadic float32 arguments passed: none, one, or two.
Tolerances ==
    {<<>>, <<Zero>>, <<Fin(1)>>, <<Fin(Scale)>>, <<Fin(-1)>>, <<Fin(-Scale)>>,
     <<Fin(Scale), Zero>>}
Lengths == {<<>>, <<Fin(3 * Scale)>>, <<Zero, One>>}

\* Draws of rand.Float32().
Draws == {Zero, Fin(Scale \div 4), Fin(Scale - 1)}

\* The (n, i) pairs passed to Lerp2.
Steps == {<<4, 1>>, <<2, 2>>, <<0, 1>>, <<0, 0>>}

\* The interface{} values passed where the generic package takes a number.
DynVals ==
    {DynFloat(Zero), DynFloat(Fin(3 * Scale)), DynFloat(Fin(-Scale)), DynFloat(PInf),
     DynInt(0), DynInt(2), DynPtr(Fin(HalfPiQ)), DynString, DynNil, DynNilPtr}

\* The variadic interface{} arguments passed: none, one, or two.
DynOpts ==
    {<<>>, <<DynFloat(Zero)>>, <<DynFloat(Fin(1))>>, <<DynFloat(Fin(-1))>>,
     <<DynInt(2)>>, <<DynString>>, <<DynNil>>, <<DynNilPtr>>,
     <<DynFloat(One), DynInt(2)>>, <<DynNil, DynString>>}

\* The source before any rand.Seed call: the default seed, no draw made.
Unseeded == [seeds |-> 0, seed |-> 0, draws |-> 0]

\* No vector is allocated and no call is made yet.  The calls of Spec are
\* those of a program already initialized, their random draws taken from
\* Draws: the initialization and the source are left to Process below.
Init ==
    /\ pkg = "none"
    /\ heap = <<>>
    /\ pc = "new"
    /\ call = [op |-> "none", args |-> <<>>, nums |-> <<>>, opt |-> <<>>, p |-> 0,
               p2 |-> 0, val |-> NaN, val2 |-> NaN, b |-> FALSE, err |-> FALSE,
               panic |-> FALSE, pre |-> <<>>, touched |-> 0]
    /\ imports = {}
    /\ inited = {}
    /\ rand = Unseeded

Ptrs == DOMAIN heap

\* A constructor call that allocates an operand of the call to come: at most
\* two operands are allocated.
Operand(name, r) ==
    /\ pkg \in {"none", name}
    /\ Len(heap) < 2
    /\ pkg' = name
    /\ heap' = r.h
    /\ UNCHANGED <<pc, call, imports, inited, rand>>

\* The call op(args, nums, opt...) of package name, which returns r.  The call
\* is made as soon as its operands exist: every cell allocated is one of args.
Call(name, op, args, nums, opt, r) ==
    /\ pkg \in {"none", name}
    /\ {args[i] : i \in DOMAIN args} = Ptrs
    /\ pkg' = name
    /\ heap' = r.h
    /\ call' = [op |-> op, args |-> args, nums |-> nums, opt |-> opt, p |-> r.p,
                p2 |-> r.p2, val |-> r.val, val2 |-> r.val2, b |-> r.b,
                err |-> r.err, panic |-> r.panic, pre |-> heap, touched |-> 0]
    /\ pc' = "done"
    /\ UNCHANGED <<imports, inited, rand>>


\* The constructor New of each package.
New ==
    \/ /\ pc = "new"
       /\ \E x \in XVals, y \in YVals, z \in {Zero, Fin(2 * Scale)} :
             Operand("vector", V3_New(heap, x, y, z))
    \/ /\ pc = "new"
       /\ \E x \in XVals, y \in YVals : Operand("vector2d", V2_New(heap, x, y))
    \/ /\ pc = "new"
       /\ \E x \in XVals, y \in YVals :
             Operand("generic", G_New(heap, DynFloat(x), DynFloat(y)))

(* package vector *)

\* The constructors other than New.
Vector_Create ==
    \/ /\ pc = "new"
       /\ \E thetha \in Angles, phi \in Angles,
             length \in Lengths :
             Call("vector", "FromAngles", <<>>, <<thetha, phi>>, length,
                  V3_FromAngles(heap, thetha, phi, length))
    \/ /\ pc = "new"
       /\ \E length \in Lengths, r1 \in Draws,
             r2 \in Draws :
             Call("vector", "Random", <<>>, <<r1, r2>>, length, V3_Random(heap,
                  length, r1, r2))

\* The operations that return a number or a boolean.
Vector_Query ==
    \/ /\ pc = "new"
       /\ \E v \in Ptrs, v2 \in Ptrs,
             tolerance \in Tolerances :
             Call("vector", "v.Equal", <<v, v2>>, <<>>, tolerance,
                  RetBool(heap, V3m_Equal(heap, v, v2, tolerance)))
    \/ /\ pc = "new"
       /\ \E v \in Ptrs :
             Call("vector", "v.Mag", <<v>>, <<>>, <<>>, RetVal(heap,
                  V3m_Mag(heap, v)))
    \/ /\ pc = "new"
       /\ \E v \in Ptrs :
             Call("vector", "v.MagSq", <<v>>, <<>>, <<>>, RetVal(heap,
                  V3m_MagSq(heap, v)))
    \/ /\ pc = "new"
       /\ \E v \in Ptrs, v2 \in Ptrs :
             Call("vector", "v.Dist", <<v, v2>>, <<>>, <<>>, V3m_Dist(heap, v,
                  v2))
    \/ /\ pc = "new"
       /\ \E v1 \in Ptrs, v2 \in Ptrs :
             Call("vector", "Dist", <<v1, v2>>, <<>>, <<>>, V3_Dist(heap, v1,
                  v2))
    \/ /\ pc = "new"
       /\ \E v \in Ptrs, v2 \in Ptrs :
             Call("vector", "v.Dot", <<v, v2>>, <<>>, <<>>, RetVal(heap,
                  V3m_Dot(heap, v, v2)))
    \/ /\ pc = "new"
       /\ \E v1 \in Ptrs, v2 \in Ptrs :
             Call("vector", "Dot", <<v1, v2>>, <<>>, <<>>, RetVal(heap,
                  V3_Dot(heap, v1, v2)))
    \/ /\ pc = "new"
       /\ \E v \in Ptrs, v2 \in Ptrs :
             Call("vector", "v.Angle", <<v, v2>>, <<>>, <<>>, RetVal(heap,
                  V3m_Angle(heap, v, v2)))
    \/ /\ pc = "new"
       /\ \E v1 \in Ptrs, v2 \in Ptrs :
             Call("vector", "Angle", <<v1, v2>>, <<>>, <<>>, RetVal(heap,
                  V3_Angle(heap, v1, v2)))
    \/ /\ pc = "new"
       /\ \E v \in Ptrs :
             Call("vector", "v.Heading", <<v>>, <<>>, <<>>, V3m_Heading(heap,
                  v))

\* The operations that return a vector and are to change none.
Vector_Pure ==
    \/ /\ pc = "new"
       /\ \E v \in Ptrs :
             Call("vector", "v.Copy", <<v>>, <<>>, <<>>, V3m_Copy(heap, v))
    \/ /\ pc = "new"
       /\ \E v \in Ptrs :
             Call("vector", "Copy", <<v>>, <<>>, <<>>, V3_Copy(heap, v))
    \/ /\ pc = "new"
       /\ \E v \in Ptrs :
             Call("vector", "Unit", <<v>>, <<>>, <<>>, V3_Unit(heap, v))
    \/ /\ pc = "new"
       /\ \E v1 \in Ptrs, v2 \in Ptrs :
             Call("vector", "Add", <<v1, v2>>, <<>>, <<>>, V3_Add(heap, v1, v2))
    \/ /\ pc = "new"
       /\ \E v1 \in Ptrs, v2 \in Ptrs :
             Call("vector", "Sub", <<v1, v2>>, <<>>, <<>>, V3_Sub(heap, v1, v2))
    \/ /\ pc = "new"
       /\ \E v \in Ptrs, v2 \in Ptrs :
             Call("vector", "v.Cross", <<v, v2>>, <<>>, <<>>, V3m_Cross(heap,
                  v, v2))
    \/ /\ pc = "new"
       /\ \E v1 \in Ptrs, v2 \in Ptrs :
             Call("vector", "Cross", <<v1, v2>>, <<>>, <<>>, V3_Cross(heap, v1,
                  v2))
    \/ /\ pc = "new"
       /\ \E v \in Ptrs, axis \in Ptrs :
             Call("vector", "v.Component", <<v, axis>>, <<>>, <<>>,
                  V3m_Component(heap, v, axis))
    \/ /\ pc = "new"
       /\ \E v \in Ptrs, axis \in Ptrs, angle \in Angles :
             Call("vector", "RotateAlongAxis", <<v, axis>>, <<angle>>, <<>>,
                  V3_RotateAlongAxis(heap, v, axis, angle))
    \/ /\ pc = "new"
       /\ \E v \in Ptrs, normal \in Ptrs :
             Call("vector", "ReflectThroughPlane", <<v, normal>>, <<>>, <<>>,
                  V3_ReflectThroughPlane(heap, v, normal))
    \/ /\ pc = "new"
       /\ \E v1 \in Ptrs, v2 \in Ptrs, t \in Scalars :
             Call("vector", "Lerp", <<v1, v2>>, <<t>>, <<>>, V3_Lerp(heap, v1,
                  v2, t))
    \/ /\ pc = "new"
       /\ \E v1 \in Ptrs, v2 \in Ptrs, ni \in Steps :
             Call("vector", "Lerp2", <<v1, v2>>, <<Fin(ni[1]), Fin(ni[2])>>,
                  <<>>, V3_Lerp2(heap, v1, v2, ni[1], ni[2]))

\* The methods that change their receiver.
Vector_Mutate ==
    \/ /\ pc = "new"
       /\ \E v1 \in Ptrs, v2 \in Ptrs :
             Call("vector", "v.Assign", <<v1, v2>>, <<>>, <<>>,
                  V3m_Assign(heap, v1, v2))
    \/ /\ pc = "new"
       /\ \E v \in Ptrs :
             Call("vector", "v.Normalize", <<v>>, <<>>, <<>>,
                  V3m_Normalize(heap, v))
    \/ /\ pc = "new"
       /\ \E v \in Ptrs, mag \in Scalars :
             Call("vector", "v.Resize", <<v>>, <<mag>>, <<>>, V3m_Resize(heap,
                  v, mag))
    \/ /\ pc = "new"
       /\ \E v \in Ptrs, v2 \in Ptrs :
             Call("vector", "v.Add", <<v, v2>>, <<>>, <<>>, V3m_Add(heap, v,
                  v2))
    \/ /\ pc = "new"
       /\ \E v \in Ptrs, v2 \in Ptrs :
             Call("vector", "v.Sub", <<v, v2>>, <<>>, <<>>, V3m_Sub(heap, v,
                  v2))
    \/ /\ pc = "new"
       /\ \E v \in Ptrs, scalar \in Scalars :
             Call("vector", "v.Mult", <<v>>, <<scalar>>, <<>>, V3m_Mult(heap,
                  v, scalar))
    \/ /\ pc = "new"
       /\ \E v \in Ptrs, thetha \in Angles,
             phi \in Angles :
             Call("vector", "v.SetHeading", <<v>>, <<thetha, phi>>, <<>>,
                  V3m_SetHeading(heap, v, thetha, phi))
    \/ /\ pc = "new"
       /\ \E v \in Ptrs, axis \in Ptrs, angle \in Angles :
             Call("vector", "v.RotateAlongAxis", <<v, axis>>, <<angle>>, <<>>,
                  V3m_RotateAlongAxis(heap, v, axis, angle))
    \/ /\ pc = "new"
       /\ \E v \in Ptrs, normal \in Ptrs :
             Call("vector", "v.ReflectThroughPlane", <<v, normal>>, <<>>, <<>>,
                  V3m_ReflectThroughPlane(heap, v, normal))

(* package vector2d *)

\* The constructors other than New.
Vector2D_Create ==
    \/ /\ pc = "new"
       /\ \E angle \in Angles, length \in Lengths :
             Call("vector2d", "FromAngle", <<>>, <<angle>>, length,
                  V2_FromAngle(heap, angle, length))
    \/ /\ pc = "new"
       /\ \E length \in Lengths, r \in Draws :
             Call("vector2d", "Random", <<>>, <<r>>, length, V2_Random(heap,
                  length, r))

\* The operations that return a number or a boolean.
Vector2D_Query ==
    \/ /\ pc = "new"
       /\ \E v \in Ptrs, v2 \in Ptrs,
             tolerance \in Tolerances :
             Call("vector2d", "v.Equal", <<v, v2>>, <<>>, tolerance,
                  RetBool(heap, V2m_Equal(heap, v, v2, tolerance)))
    \/ /\ pc = "new"
       /\ \E v \in Ptrs :
             Call("vector2d", "v.Mag", <<v>>, <<>>, <<>>, RetVal(heap,
                  V2m_Mag(heap, v)))
    \/ /\ pc = "new"
       /\ \E v \in Ptrs :
             Call("vector2d", "v.MagSq", <<v>>, <<>>, <<>>, RetVal(heap,
                  V2m_MagSq(heap, v)))
    \/ /\ pc = "new"
       /\ \E v \in Ptrs :
             Call("vector2d", "v.Heading", <<v>>, <<>>, <<>>, RetVal(heap,
                  V2m_Heading(heap, v)))
    \/ /\ pc = "new"
       /\ \E v \in Ptrs, v2 \in Ptrs :
             Call("vector2d", "v.Dist", <<v, v2>>, <<>>, <<>>, V2m_Dist(heap,
                  v, v2))
    \/ /\ pc = "new"
       /\ \E v \in Ptrs, v2 \in Ptrs :
             Call("vector2d", "v.Dot", <<v, v2>>, <<>>, <<>>, RetVal(heap,
                  V2m_Dot(heap, v, v2)))
    \/ /\ pc = "new"
       /\ \E v \in Ptrs, v2 \in Ptrs :
             Call("vector2d", "v.Cross", <<v, v2>>, <<>>, <<>>, RetVal(heap,
                  V2m_Cross(heap, v, v2)))
    \/ /\ pc = "new"
       /\ \E v \in Ptrs, v2 \in Ptrs :
             Call("vector2d", "v.AngleBetween", <<v, v2>>, <<>>, <<>>,
                  RetVal(heap, V2m_AngleBetween(heap, v, v2)))
    \/ /\ pc = "new"
       /\ \E v1 \in Ptrs, v2 \in Ptrs :
             Call("vector2d", "Dot", <<v1, v2>>, <<>>, <<>>, RetVal(heap,
                  V2_Dot(heap, v1, v2)))
    \/ /\ pc = "new"
       /\ \E v1 \in Ptrs, v2 \in Ptrs :
             Call("vector2d", "Cross", <<v1, v2>>, <<>>, <<>>, RetVal(heap,
                  V2_Cross(heap, v1, v2)))
    \/ /\ pc = "new"
       /\ \E v1 \in Ptrs, v2 \in Ptrs :
             Call("vector2d", "AngleBetween", <<v1, v2>>, <<>>, <<>>,
                  RetVal(heap, V2_AngleBetween(heap, v1, v2)))

\* The operations that return a vector and are to change none.
Vector2D_Pure ==
    \/ /\ pc = "new"
       /\ \E v \in Ptrs :
             Call("vector2d", "v.Copy", <<v>>, <<>>, <<>>, V2m_Copy(heap, v))
    \/ /\ pc = "new"
       /\ \E v \in Ptrs :
             Call("vector2d", "Copy", <<v>>, <<>>, <<>>, V2_Copy(heap, v))
    \/ /\ pc = "new"
       /\ \E v \in Ptrs :
             Call("vector2d", "Unit", <<v>>, <<>>, <<>>, V2_Unit(heap, v))
    \/ /\ pc = "new"
       /\ \E v1 \in Ptrs, v2 \in Ptrs :
             Call("vector2d", "Add", <<v1, v2>>, <<>>, <<>>, V2_Add(heap, v1,
                  v2))
    \/ /\ pc = "new"
       /\ \E v1 \in Ptrs, v2 \in Ptrs :
             Call("vector2d", "Sub", <<v1, v2>>, <<>>, <<>>, V2_Sub(heap, v1,
                  v2))

\* The methods that change their receiver.
Vector2D_Mutate ==
    \/ /\ pc = "new"
       /\ \E v \in Ptrs :
             Call("vector2d", "v.Normalize", <<v>>, <<>>, <<>>,
                  V2m_Normalize(heap, v))
    \/ /\ pc = "new"
       /\ \E v \in Ptrs, mag \in Scalars :
             Call("vector2d", "v.Resize", <<v>>, <<mag>>, <<>>,
                  V2m_Resize(heap, v, mag))
    \/ /\ pc = "new"
       /\ \E v \in Ptrs, v2 \in Ptrs :
             Call("vector2d", "v.Add", <<v, v2>>, <<>>, <<>>, V2m_Add(heap, v,
                  v2))
    \/ /\ pc = "new"
       /\ \E v \in Ptrs, v2 \in Ptrs :
             Call("vector2d", "v.Sub", <<v, v2>>, <<>>, <<>>, V2m_Sub(heap, v,
                  v2))
    \/ /\ pc = "new"
       /\ \E v \in Ptrs, scalar \in Scalars :
             Call("vector2d", "v.Mult", <<v>>, <<scalar>>, <<>>, V2m_Mult(heap,
                  v, scalar))
    \/ /\ pc = "new"
       /\ \E v \in Ptrs, angle \in Angles :
             Call("vector2d", "v.Rotate", <<v>>, <<angle>>, <<>>,
                  V2m_Rotate(heap, v, angle))
    \/ /\ pc = "new"
       /\ \E v \in Ptrs, angle \in Angles :
             Call("vector2d", "v.SetHeading", <<v>>, <<angle>>, <<>>,
                  V2m_SetHeading(heap, v, angle))

(* package vector2d (vector2d-generic) *)

\* The constructors other than New.
Generic_Create ==
    \/ /\ pc = "new"
       /\ \E x \in DynVals, y \in DynVals :
             Call("generic", "New", <<>>, <<x, y>>, <<>>, G_New(heap, x, y))
    \/ /\ pc = "new"
       /\ \E angle \in DynVals, length \in DynOpts :
             Call("generic", "FromAngle", <<>>, <<angle>>, length,
                  G_FromAngle(heap, angle, length))
    \/ /\ pc = "new"
       /\ \E length \in DynOpts, r \in Draws :
             Call("generic", "Random", <<>>, <<r>>, length, G_Random(heap,
                  length, r))

\* The operations that return a number or a boolean.
Generic_Query ==
    \/ /\ pc = "new"
       /\ \E v \in Ptrs, v2 \in Ptrs,
             tolerance \in DynOpts :
             Call("generic", "v.Equal", <<v, v2>>, <<>>, tolerance,
                  Gm_Equal(heap, v, heap[v2], tolerance))
    \/ /\ pc = "new"
       /\ \E v \in Ptrs :
             Call("generic", "v.Mag", <<v>>, <<>>, <<>>, RetVal(heap,
                  Gm_Mag(heap[v])))
    \/ /\ pc = "new"
       /\ \E v \in Ptrs :
             Call("generic", "v.MagSq", <<v>>, <<>>, <<>>, RetVal(heap,
                  Gm_MagSq(heap[v])))
    \/ /\ pc = "new"
       /\ \E v \in Ptrs :
             Call("generic", "v.Heading", <<v>>, <<>>, <<>>, RetVal(heap,
                  Gm_Heading(heap[v])))
    \/ /\ pc = "new"
       /\ \E v \in Ptrs, v2 \in Ptrs :
             Call("generic", "v.Dist", <<v, v2>>, <<>>, <<>>, Gm_Dist(heap,
                  heap[v], heap[v2]))
    \/ /\ pc = "new"
       /\ \E v \in Ptrs, v2 \in Ptrs :
             Call("generic", "v.Dot", <<v, v2>>, <<>>, <<>>, RetVal(heap,
                  Gm_Dot(heap[v], heap[v2])))
    \/ /\ pc = "new"
       /\ \E v \in Ptrs, v2 \in Ptrs :
             Call("generic", "v.Cross", <<v, v2>>, <<>>, <<>>, RetVal(heap,
                  Gm_Cross(heap[v], heap[v2])))
    \/ /\ pc = "new"
       /\ \E v \in Ptrs, v2 \in Ptrs :
             Call("generic", "v.AngleBetween", <<v, v2>>, <<>>, <<>>,
                  Gm_AngleBetween(heap, heap[v], heap[v2]))
    \/ /\ pc = "new"
       /\ \E v1 \in Ptrs, v2 \in Ptrs :
             Call("generic", "Dot", <<v1, v2>>, <<>>, <<>>, RetVal(heap,
                  G_Dot(heap[v1], heap[v2])))
    \/ /\ pc = "new"
       /\ \E v1 \in Ptrs, v2 \in Ptrs :
             Call("generic", "Cross", <<v1, v2>>, <<>>, <<>>, RetVal(heap,
                  G_Cross(heap[v1], heap[v2])))
    \/ /\ pc = "new"
       /\ \E v1 \in Ptrs, v2 \in Ptrs :
             Call("generic", "AngleBetween", <<v1, v2>>, <<>>, <<>>,
                  G_AngleBetween(heap, heap[v1], heap[v2]))

\* The operations that return a vector and are to change none.
Generic_Pure ==
    \/ /\ pc = "new"
       /\ \E v \in Ptrs :
             Call("generic", "v.Copy", <<v>>, <<>>, <<>>, Gm_Copy(heap,
                  heap[v]))
    \/ /\ pc = "new"
       /\ \E v \in Ptrs :
             Call("generic", "Copy", <<v>>, <<>>, <<>>, G_Copy(heap, heap[v]))
    \/ /\ pc = "new"
       /\ \E v \in Ptrs :
             Call("generic", "Unit", <<v>>, <<>>, <<>>, G_Unit(heap, heap[v]))
    \/ /\ pc = "new"
       /\ \E v1 \in Ptrs, v2 \in Ptrs :
             Call("generic", "Add", <<v1, v2>>, <<>>, <<>>, G_Add(heap,
                  heap[v1], heap[v2]))
    \/ /\ pc = "new"
       /\ \E v1 \in Ptrs, v2 \in Ptrs :
             Call("generic", "Sub", <<v1, v2>>, <<>>, <<>>, G_Sub(heap,
                  heap[v1], heap[v2]))

\* The methods that change their receiver.
Generic_Mutate ==
    \/ /\ pc = "new"
       /\ \E v \in Ptrs :
             Call("generic", "v.Normalize", <<v>>, <<>>, <<>>,
                  Gm_Normalize(heap, v))
    \/ /\ pc = "new"
       /\ \E v \in Ptrs, len \in DynVals :
             Call("generic", "v.Resize", <<v>>, <<len>>, <<>>, Gm_Resize(heap,
                  v, len))
    \/ /\ pc = "new"
       /\ \E v \in Ptrs, v2 \in Ptrs :
             Call("generic", "v.Add", <<v, v2>>, <<>>, <<>>, Gm_Add(heap, v,
                  heap[v2]))
    \/ /\ pc = "new"
       /\ \E v \in Ptrs, v2 \in Ptrs :
             Call("generic", "v.Sub", <<v, v2>>, <<>>, <<>>, Gm_Sub(heap, v,
                  heap[v2]))
    \/ /\ pc = "new"
       /\ \E v \in Ptrs, scalar \in DynVals :
             Call("generic", "v.Mult", <<v>>, <<scalar>>, <<>>, Gm_Mult(heap,
                  v, scalar))
    \/ /\ pc = "new"
       /\ \E v \in Ptrs, scalar \in DynVals :
             Call("generic", "v.Div", <<v>>, <<scalar>>, <<>>, Gm_Div(heap, v,
                  scalar))
    \/ /\ pc = "new"
       /\ \E v \in Ptrs, angle \in DynVals :
             Call("generic", "v.Rotate", <<v>>, <<angle>>, <<>>,
                  Gm_Rotate(heap, v, angle))
    \/ /\ pc = "new"
       /\ \E v \in Ptrs, angle \in DynVals :
             Call("generic", "v.SetHeading", <<v>>, <<angle>>, <<>>,
                  Gm_SetHeading(heap, v, angle))

\* After the call the caller writes to a component of the vector the call
\* returned, or of a vector it passed: x.X = x.X + 1.
Touch ==
    /\ pc = "done"
    /\ call.p # 0
    /\ \E x \in {call.p} \cup {call.args[i] : i \in DOMAIN call.args} :
          /\ heap' = [heap EXCEPT ![x].X = FAdd(heap[x].X, One)]
          /\ call' = [call EXCEPT !.touched = x]
    /\ pc' = "touched"
    /\ UNCHANGED <<pkg, imports, inited, rand>>

(* Process initialization: a program imports some of the three packages;   *)
(* the runtime runs the init() of each imported package, once, before main; *)
(* main then calls Random of the packages it imports.                       *)

Packages == {"vector", "vector2d", "generic"}

\* The clock readings and the draws of one run.
MaxClock == 3
MaxDraws == 4

\* The readings of time.Now().UnixNano(), which do not decrease.
Clock == 1 .. MaxClock

\* The program imports one package or more; no init() has run yet.
StartProcess ==
    /\ pkg = "none"
    /\ heap = <<>>
    /\ pc = "new"
    /\ call = [op |-> "none", args |-> <<>>, nums |-> <<>>, opt |-> <<>>, p |-> 0,
               p2 |-> 0, val |-> NaN, val2 |-> NaN, b |-> FALSE, err |-> FALSE,
               panic |-> FALSE, pre |-> <<>>, touched |-> 0]
    /\ imports \in SUBSET Packages \ {{}}
    /\ inited = {}
    /\ rand = Unseeded

\* func init() { rand.Seed(time.Now().UnixNano()) } of package p.
init(p) ==
    /\ pc = "new"
    /\ p \in imports \ inited
    /\ inited' = inited \cup {p}
    /\ \E now \in Clock :
          /\ now >= rand.seed
          /\ rand' = [seeds |-> rand.seeds + 1, seed |-> now, draws |-> 0]
    /\ UNCHANGED <<pkg, heap, pc, call, imports>>

\* The runtime calls main once every init() has returned.
main ==
    /\ pc = "new"
    /\ inited = imports
    /\ pc' = "main"
    /\ UNCHANGED <<pkg, heap, call, imports, inited, rand>>

\* Random of package p called from main: two rand.Float32() draws in package
\* vector, one in the 2D packages, none when the generic Random returns an
\* error for its length argument.
Random(p) ==
    /\ pc = "main"
    /\ p \in imports
    /\ rand.draws < MaxDraws
    /\ \E n \in (IF p = "vector" THEN {2} ELSE IF p = "vector2d" THEN {1} ELSE {0, 1}) :
          rand' = [rand EXCEPT !.draws = rand.draws + n]
    /\ pkg' = p
    /\ UNCHANGED <<heap, pc, call, imports, inited>>

NextProcess ==
    \/ \E p \in Packages : init(p)
    \/ main
    \/ \E p \in Packages : Random(p)

Process == StartProcess /\ [][NextProcess]_vars

Next ==
    \/ New
    \/ Vector_Create
    \/ Vector_Query
    \/ Vector_Pure
    \/ Vector_Mutate
    \/ Vector2D_Create
    \/ Vector2D_Query
    \/ Vector2D_Pure
    \/ Vector2D_Mutate
    \/ Generic_Create
    \/ Generic_Query
    \/ Generic_Pure
    \/ Generic_Mutate
    \/ Touch

Spec == Init /\ [][Next]_vars

-----------------------------------------------------------------------------
(* Properties of the calls.  A state in which pc is not "new" records one    *)
(* call: call.pre is the heap it was made on, heap the heap it left (and,    *)
(* once pc is "touched", the heap after the caller's write).                 *)

\* The vectors passed to the call.
Inputs == {call.args[i] : i \in DOMAIN call.args}

\* The zero vector of package p.
ZeroOf(p) == IF p = "vector" THEN Vector(Zero, Zero, Zero) ELSE Vector2D(Zero, Zero)

\* The free functions of package vector that return a vector.
PureVectorOps ==
    {"Copy", "Unit", "Add", "Sub", "Cross", "Lerp", "Lerp2", "RotateAlongAxis",
     "ReflectThroughPlane"}

\* C1: every free function of package vector that returns a vector returns a
\* cell that is none of the cells passed to it, whatever the inputs (a zero
\* axis and a zero normal included), so a write to the returned vector
\* afterwards leaves every input with the components it had before the call.
C1_PureReturnsNewInstance ==
    (pkg = "vector" /\ call.op \in PureVectorOps) =>
        /\ call.p \notin Inputs
        /\ call.touched = call.p => \A a \in Inputs : heap[a] = call.pre[a]

\* RotateAlongAxis or ReflectThroughPlane was called with a zero axis or
\* normal, returned the very cell of v, and the caller's write to the result
\* changed v.
C1_ZeroAxisReturnsInput ==
    /\ pkg = "vector"
    /\ call.op \in {"RotateAlongAxis", "ReflectThroughPlane"}
    /\ isZero(call.pre, call.args[2])
    /\ call.p = call.args[1]
    /\ call.touched = call.p
    /\ heap[call.args[1]] # call.pre[call.args[1]]

\* The operations that are to change none of their inputs: the free functions
\* and Component.
PureOps ==
    {"Copy", "Unit", "Add", "Sub", "Dot", "Cross", "Dist", "Angle", "AngleBetween",
     "Lerp", "Lerp2", "v.Component", "RotateAlongAxis", "ReflectThroughPlane"}

\* C2: when a pure operation returns, every vector passed to it (v1, v2, v,
\* axis, normal) holds exactly the components it held before the call.
C2_PureLeavesInputs ==
    (pc = "done" /\ call.op \in PureOps) =>
        \A a \in DOMAIN call.pre : heap[a] = call.pre[a]

\* ReflectThroughPlane has returned a new vector for a normal that is neither
\* zero nor of unit length, or Component has for such an axis.
C2_NormalNotUnit ==
    /\ pc = "done"
    /\ pkg = "vector"
    /\ call.op \in {"ReflectThroughPlane", "v.Component"}
    /\ ~isZero(call.pre, call.args[2])
    /\ V3m_Mag(call.pre, call.args[2]) # One
    /\ call.p \notin Inputs
    /\ call.args[1] # call.args[2]

\* |x - y| <= t for finite x and y and t in quanta, in exact arithmetic.
WithinQ(x, y, t) == AbsI(x.n - y.n) <= t

\* The components of the two vectors passed to Equal differ by at most t quanta.
AllWithinQ(t) ==
    LET a == call.pre[call.args[1]]
        b == call.pre[call.args[2]]
    IN WithinQ(a.X, b.X, t) /\ WithinQ(a.Y, b.Y, t) /\ WithinQ(a.Z, b.Z, t)

EqualIn(p, h, a, b, opt) ==
    CASE p = "vector" -> V3m_Equal(h, a, b, opt)
      [] p = "vector2d" -> V2m_Equal(h, a, b, opt)
      [] OTHER -> Gm_Equal(h, a, h[b], opt).b

\* The tolerance arguments are numbers: float32 by type in the static
\* packages, at most one value that converts to a float in the generic one.
NumericTolerance(p, opt) ==
    \/ p # "generic"
    \/ /\ Len(opt) <= 1
       /\ \A i \in DOMAIN opt : ~TypeOfPanics(opt[i]) /\ ConvertibleTo(opt[i])

\* The tolerance Equal uses of opt (0 when none is passed).
ToleranceOf(p, opt) ==
    IF Len(opt) = 0 THEN Zero
    ELSE IF p = "generic" THEN Convert(opt[1]) ELSE opt[1]

\* The tolerance arguments at least as large as opt.
LargerTolerances(p, opt) ==
    {o \in (IF p = "generic" THEN DynOpts ELSE Tolerances) :
        /\ Len(o) = 1
        /\ NumericTolerance(p, o)
        /\ ~FLt(ToleranceOf(p, o), ToleranceOf(p, opt))}

\* C4 as amended: in the three packages, for every numeric tolerance t, Equal
\* is symmetric (a.Equal(b, t) = b.Equal(a, t)) and monotone (true with t
\* stays true with every t2 >= t); it is reflexive (v.Equal(v, t) is true)
\* for every t >= 0 and with no tolerance.
C4_EqualRelationNonNegative ==
    (call.op = "v.Equal" /\ NumericTolerance(pkg, call.opt)) =>
        /\ (call.args[1] = call.args[2] /\ ~FLt(ToleranceOf(pkg, call.opt), Zero))
               => call.b
        /\ call.b = EqualIn(pkg, call.pre, call.args[2], call.args[1], call.opt)
        /\ call.b => \A o \in LargerTolerances(pkg, call.opt) :
                         EqualIn(pkg, call.pre, call.args[1], call.args[2], o)

\* C4 as stated, for Vector3 and the static Vector2: reflexive, symmetric and
\* monotone for every tolerance argument.
C4_EqualRelationAnyTolerance ==
    (call.op = "v.Equal" /\ pkg \in {"vector", "vector2d"}) =>
        /\ call.args[1] = call.args[2] => call.b
        /\ call.b = EqualIn(pkg, call.pre, call.args[2], call.args[1], call.opt)
        /\ call.b => \A o \in LargerTolerances(pkg, call.opt) :
                         EqualIn(pkg, call.pre, call.args[1], call.args[2], o)

\* Equal of the static Vector2 was called on two vectors that differ, with a
\* positive tolerance, and returned true.
C4_EqualOfDistinct ==
    /\ pkg = "vector2d"
    /\ call.op = "v.Equal"
    /\ call.args[1] # call.args[2]
    /\ call.pre[call.args[1]] # call.pre[call.args[2]]
    /\ Len(call.opt) = 1
    /\ FGt(call.opt[1], Zero)
    /\ call.b

\* C5: generic Div(scalar) with a scalar that converts to zero returns an
\* error and leaves X and Y of the receiver as they were; with a numeric
\* scalar that converts to a non-zero value it returns no error and leaves
\* X / scalar and Y / scalar.
C5_DivByZeroIsAnError ==
    (pc = "done" /\ pkg = "generic" /\ call.op = "v.Div"
        /\ ~TypeOfPanics(call.nums[1]) /\ ConvertibleTo(call.nums[1])) =>
        LET v == call.args[1]
            A == Convert(call.nums[1])
        IN IF A = Zero
           THEN call.err /\ heap[v] = call.pre[v]
           ELSE /\ ~call.err
                /\ heap[v] = Vector2D(FDiv(call.pre[v].X, A), FDiv(call.pre[v].Y, A))

\* Div was called with the int 0 on a vector that is not the zero vector and
\* returned an error.
C5_DivByZero ==
    /\ pc = "done"
    /\ pkg = "generic"
    /\ call.op = "v.Div"
    /\ call.nums[1] = DynInt(0)
    /\ call.err
    /\ call.pre[call.args[1]] # Vector2D(Zero, Zero)

\* The dynamically typed arguments of the call to the generic package.
DynArgs ==
    {call.opt[i] : i \in DOMAIN call.opt}
        \cup (IF call.op = "Random" THEN {}
              ELSE {call.nums[i] : i \in DOMAIN call.nums})

\* An interface{} value that is not convertible to a float: a string, a nil
\* interface, a nil pointer.
NotAFloat(unk) == unk \in {DynString, DynNil, DynNilPtr}

\* The operations of the generic package that take an interface{} argument.
DynConstructors == {"New", "FromAngle", "Random"}
DynMutators == {"v.Resize", "v.Mult", "v.Div", "v.Rotate", "v.SetHeading"}

\* C6: a generic operation passed an argument that is not convertible to a
\* float returns an error; a mutating method then leaves X and Y of its
\* receiver as they were, a constructor returns the zero-value vector, and
\* Equal returns false.
C6_NotConvertibleIsAnError ==
    (pc = "done" /\ pkg = "generic"
        /\ call.op \in DynConstructors \cup DynMutators \cup {"v.Equal"}
        /\ \E unk \in DynArgs : NotAFloat(unk)) =>
        /\ call.err
        /\ call.op \in DynMutators => heap[call.args[1]] = call.pre[call.args[1]]
        /\ call.op \in DynConstructors =>
               call.p # 0 /\ heap[call.p] = Vector2D(Zero, Zero)
        /\ call.op = "v.Equal" => ~call.b

\* New, Mult or Equal was passed a nil interface value and panicked: no error
\* came back.
C6_NilArgumentPanics ==
    /\ pkg = "generic"
    /\ call.op \in {"New", "v.Mult", "v.Equal"}
    /\ DynNil \in DynArgs
    /\ call.panic
    /\ ~call.err

\* C7: no call to the generic package panics, whatever is passed: getFloat
\* yields a float or an error.
C7_GetFloatNeverPanics == pkg = "generic" => ~call.panic

\* A call passed a nil pointer (and no nil interface value) has panicked.
C7_NilPointerPanics ==
    /\ pkg = "generic"
    /\ DynNilPtr \in DynArgs
    /\ DynNil \notin DynArgs
    /\ call.panic

\* Every dynamically typed argument of the call is a number.
AllNumeric == \A unk \in DynArgs : ~TypeOfPanics(unk) /\ ConvertibleTo(unk)

\* C8: generic FromAngle, Random and Equal passed more than one optional
\* argument return an error, with the zero-value vector (FromAngle, Random)
\* or false (Equal); passed none or one optional argument, every argument a
\* number, they return no error.
C8_TooManyArgumentsIsAnError ==
    (pc = "done" /\ pkg = "generic" /\ call.op \in {"FromAngle", "Random", "v.Equal"}) =>
        /\ Len(call.opt) > 1 =>
               /\ call.err
               /\ call.op = "v.Equal" => ~call.b
               /\ call.op # "v.Equal" =>
                      call.p # 0 /\ heap[call.p] = Vector2D(Zero, Zero)
        /\ (Len(call.opt) <= 1 /\ AllNumeric) => ~call.err /\ ~call.panic

\* FromAngle was passed a nil angle and two optional arguments, and panicked
\* before it counted them.
C8_NilAngleTooManyArguments ==
    /\ pkg = "generic"
    /\ call.op = "FromAngle"
    /\ Len(call.opt) > 1
    /\ TypeOfPanics(call.nums[1])
    /\ call.panic
    /\ ~call.err

\* Mag and MagSq of the cell v of heap h in package p.
MagSqIn(p, h, v) == IF p = "vector" THEN V3m_MagSq(h, v) ELSE V2m_MagSq(h, v)
MagIn(p, h, v) == IF p = "vector" THEN V3m_Mag(h, v) ELSE V2m_Mag(h, v)

\* The magnitude a after v.Resize(m) is m within tolerance: one part in 25 of
\* m and two quanta.
ResizedTo(a, m) == a.k = "fin" /\ 25 * AbsI(a.n - m.n) <= m.n + 50

C10_ZeroStaysZero ==
    (pc = "done" /\ call.op \in {"v.Normalize", "v.Resize", "Unit"}
        /\ call.pre[call.args[1]] = ZeroOf(pkg)
        /\ ((pkg = "generic" /\ call.op = "v.Resize") => AllNumeric)) =>
        /\ heap[call.args[1]] = ZeroOf(pkg)
        /\ call.op = "Unit" =>
               call.p \notin Inputs /\ call.p # 0 /\ heap[call.p] = ZeroOf(pkg)

\* The zero Vector3 was resized to +Inf and holds NaN.
C10_ZeroResizedToInf ==
    /\ pc = "done"
    /\ pkg = "vector"
    /\ call.op = "v.Resize"
    /\ call.pre[call.args[1]] = Vector(Zero, Zero, Zero)
    /\ call.nums[1] = PInf
    /\ heap[call.args[1]] = Vector(NaN, NaN, NaN)

\* The exact dot product of two finite vectors, in squared quanta, and the
\* sum of the absolute components of one, in quanta.
DotQ(a, b) == a.X.n * b.X.n + a.Y.n * b.Y.n + a.Z.n * b.Z.n
Norm1(a) == AbsI(a.X.n) + AbsI(a.Y.n) + AbsI(a.Z.n)
Finite3(a) == a.X.k = "fin" /\ a.Y.k = "fin" /\ a.Z.k = "fin"

\* The exact cross product of two finite vectors is zero within tolerance in
\* every component: one part in 10 of the product of the sizes, and two quanta
\* of either vector.
ParallelQ(a, b) ==
    LET t == (Norm1(a) \div 10 + 2) * Norm1(b)
    IN /\ AbsI(a.Y.n * b.Z.n - a.Z.n * b.Y.n) <= t
       /\ AbsI(a.Z.n * b.X.n - a.X.n * b.Z.n) <= t
       /\ AbsI(a.X.n * b.Y.n - a.Y.n * b.X.n) <= t

\* What C11 says of a non-zero axis: with u the unit vector of axis,
\* parallel = u * dot(v, u) and perpendicular = v - parallel, both new cells;
\* parallel + perpendicular = v; dot(perpendicular, axis) = 0 within tolerance
\* (one part in 10 of the sizes of v and axis, and two quanta); parallel is a
\* multiple of axis within tolerance.
ComponentsOf(v, axis) ==
    LET u == V3_Unit(call.pre, axis)
        d == V3_Dot(u.h, v, u.p)
        a == call.pre[axis]
        w == call.pre[v]
        par == heap[call.p]
        per == heap[call.p2]
    IN /\ par = Vector(FMul(u.h[u.p].X, d), FMul(u.h[u.p].Y, d), FMul(u.h[u.p].Z, d))
       /\ per = Vector(FSub(w.X, par.X), FSub(w.Y, par.Y), FSub(w.Z, par.Z))
       /\ Finite3(par) /\ Finite3(per)
       /\ Vector(FAdd(par.X, per.X), FAdd(par.Y, per.Y), FAdd(par.Z, per.Z)) = w
       /\ AbsI(DotQ(per, a)) <= (Norm1(w) \div 10 + 2) * Norm1(a)
       /\ ParallelQ(par, a)

\* Component returned two new zero vectors.
TwoZeros ==
    /\ call.p \notin DOMAIN call.pre /\ call.p2 \notin DOMAIN call.pre
    /\ call.p # call.p2
    /\ heap[call.p] = Vector(Zero, Zero, Zero)
    /\ heap[call.p2] = Vector(Zero, Zero, Zero)

\* C11 as amended: v.Component(axis) returns two zero vectors when axis is
\* the zero vector; for an axis whose squared magnitude is finite and at least
\* 1 (it neither overflows nor underflows, so that Normalize makes it a unit
\* vector) and a v whose squared magnitude is finite (no result overflows)
\* it returns parallel = axis_unit * dot(v, axis_unit) and
\* perpendicular = v - parallel, with parallel + perpendicular = v,
\* dot(perpendicular, axis) = 0 and parallel a multiple of axis, within
\* tolerance.
C11_ComponentOfRegularAxis ==
    (pc = "done" /\ pkg = "vector" /\ call.op = "v.Component") =>
        LET v == call.args[1]
            axis == call.args[2]
            sq == V3m_MagSq(call.pre, axis)
        IN /\ isZero(call.pre, axis) => TwoZeros
           /\ (sq.k = "fin" /\ sq.n >= Scale /\ V3m_MagSq(call.pre, v).k = "fin")
                  => ComponentsOf(v, axis)

\* C11 as stated: the same for every non-zero axis.
C11_ComponentOfNonZeroAxis ==
    (pc = "done" /\ pkg = "vector" /\ call.op = "v.Component") =>
        LET v == call.args[1]
            axis == call.args[2]
        IN /\ isZero(call.pre, axis) => TwoZeros
           /\ ~isZero(call.pre, axis) => ComponentsOf(v, axis)

\* Component was called on (-3, -4, 2) with the axis (1, 2, 0) and returned a
\* non-zero parallel and a non-zero perpendicular component.
C11_ComponentSplit ==
    /\ pc = "done"
    /\ pkg = "vector"
    /\ call.op = "v.Component"
    /\ call.pre[call.args[1]] = Vector(Fin(-3 * Scale), Fin(-4 * Scale), Fin(2 * Scale))
    /\ call.pre[call.args[2]] = Vector(One, Fin(2 * Scale), Zero)
    /\ ~isZero(heap, call.p)
    /\ ~isZero(heap, call.p2)

\* No component of the vector a is NaN.
NoNaN3(a) == ~IsNaN(a.X) /\ ~IsNaN(a.Y) /\ ~IsNaN(a.Z)

\* C12: RotateAlongAxis(v, axis, angle) with a zero axis, for any angle, and
\* ReflectThroughPlane(v, normal) with a zero normal return a vector whose
\* components are those of v; the method forms return with the receiver's
\* components unchanged; nothing panics and no component is NaN.
C12_ZeroAxisIsIdentity ==
    (/\ pc = "done" /\ pkg = "vector"
     /\ call.op \in {"RotateAlongAxis", "ReflectThroughPlane", "v.RotateAlongAxis",
                     "v.ReflectThroughPlane"}
     /\ isZero(call.pre, call.args[2])) =>
        /\ ~call.panic /\ ~call.err
        /\ call.p \in DOMAIN heap
        /\ heap[call.p] = call.pre[call.args[1]]
        /\ heap[call.args[1]] = call.pre[call.args[1]]
        /\ NoNaN3(heap[call.p])

\* The method v.RotateAlongAxis was called on a non-zero v with a zero axis
\* and an angle that is not a multiple of 2*pi.
C12_RotatedAlongZeroAxis ==
    /\ pc = "done"
    /\ pkg = "vector"
    /\ call.op = "v.RotateAlongAxis"
    /\ isZero(call.pre, call.args[2])
    /\ ~isZero(call.pre, call.args[1])
    /\ call.nums[1] = Fin(HalfPiQ)

\* Each component of the finite vector a is within t quanta of that of b.
NearQ(a, b, t) ==
    /\ Finite3(a) /\ Finite3(b)
    /\ AbsI(a.X.n - b.X.n) <= t
    /\ AbsI(a.Y.n - b.Y.n) <= t
    /\ AbsI(a.Z.n - b.Z.n) <= t

\* The tolerance for a vector derived from w through a normalisation and the
\* sine and cosine: one part in 20 of the size of w, and three quanta.
TolOf(w) == Norm1(w) \div 20 + 3

\* The vector RotateAlongAxis or its method form produced.
Rotated == IF call.op = "RotateAlongAxis" THEN heap[call.p] ELSE heap[call.args[1]]

\* The component parallel to the axis a of the vector w.
ParallelTo(w, a) ==
    LET c == V3m_Component(<<w, a>>, 1, 2)
    IN c.h[c.p]

\* What C13 says of a rotation of v along axis by angle: the magnitude and
\* the component parallel to axis are those of v, and for the angles 0 and
\* 2*pi the result is v, all within tolerance.
RotationKeeps(v, axis, angle) ==
    LET w == call.pre[v]
        a == call.pre[axis]
        r == Rotated
        m0 == V3m_Mag(<<w>>, 1)
        m1 == V3m_Mag(<<r>>, 1)
    IN /\ Finite3(r)
       /\ m0.k = "fin" /\ m1.k = "fin" /\ AbsI(m1.n - m0.n) <= TolOf(w)
       /\ NearQ(ParallelTo(r, a), ParallelTo(w, a), TolOf(w))
       /\ angle \in {Zero, Fin(TwoPiQ)} => NearQ(r, w, TolOf(w))

\* C13 as amended: for every v whose squared magnitude is finite, every axis
\* whose squared magnitude is finite and at least 1 (it neither overflows nor
\* underflows) and every angle, RotateAlongAxis(v, axis, angle) has the
\* magnitude of v and the component of v parallel to axis, and for the angles
\* 0 and 2*pi it equals v, within tolerance.
C13_RotationAlongRegularAxis ==
    (/\ pc = "done" /\ pkg = "vector"
     /\ call.op \in {"RotateAlongAxis", "v.RotateAlongAxis"}) =>
        LET sq == V3m_MagSq(call.pre, call.args[2])
        IN (sq.k = "fin" /\ sq.n >= Scale
            /\ V3m_MagSq(call.pre, call.args[1]).k = "fin")
               => RotationKeeps(call.args[1], call.args[2], call.nums[1])

\* C13 as stated: the same for every v whose squared magnitude is finite and
\* every non-zero axis.
C13_RotationAlongNonZeroAxis ==
    (/\ pc = "done" /\ pkg = "vector"
     /\ call.op \in {"RotateAlongAxis", "v.RotateAlongAxis"}) =>
        ((~isZero(call.pre, call.args[2])
          /\ V3m_MagSq(call.pre, call.args[1]).k = "fin")
             => RotationKeeps(call.args[1], call.args[2], call.nums[1]))

\* (-3, -4, 2) was rotated along (1, 2, 0) by a quarter turn into a vector
\* that differs from it.
C13_QuarterTurn ==
    /\ pc = "done"
    /\ pkg = "vector"
    /\ call.op = "RotateAlongAxis"
    /\ call.pre[call.args[1]] = Vector(Fin(-3 * Scale), Fin(-4 * Scale), Fin(2 * Scale))
    /\ call.pre[call.args[2]] = Vector(One, Fin(2 * Scale), Zero)
    /\ call.nums[1] = Fin(HalfPiQ)
    /\ ~NearQ(heap[call.p], call.pre[call.args[1]], 10)

\* The vector ReflectThroughPlane or its method form produced.
Reflected ==
    IF call.op = "ReflectThroughPlane" THEN heap[call.p] ELSE heap[call.args[1]]

\* The reflection of the vector r through the plane of normal a.
ReflectionOf(r, a) ==
    LET q == V3_ReflectThroughPlane(<<r, a>>, 1, 2)
    IN q.h[q.p]

\* What C14 says of the reflection r of v through the plane of normal n: the
\* reflection of r is v; the component along n is negated (dot(r, n) =
\* -dot(v, n)); the component perpendicular to n is kept (r - v is a multiple
\* of n); all within tolerance.
ReflectionIsInvolution(v, normal) ==
    LET w == call.pre[v]
        a == call.pre[normal]
        r == Reflected
    IN /\ Finite3(r)
       /\ NearQ(ReflectionOf(r, a), w, TolOf(w))
       /\ AbsI(DotQ(r, a) + DotQ(w, a)) <= (Norm1(w) \div 10 + 2) * Norm1(a)
       /\ ParallelQ(Vector(FSub(r.X, w.X), FSub(r.Y, w.Y), FSub(r.Z, w.Z)), a)

\* C14 as amended: for every v whose squared magnitude is finite and every
\* normal n whose squared magnitude is finite and at least 1 (it neither
\* overflows nor underflows), ReflectThroughPlane(ReflectThroughPlane(v, n), n)
\* equals v, and a single reflection negates the component of v along n and
\* keeps the component perpendicular to n, within tolerance.
C14_ReflectionThroughRegularNormal ==
    (/\ pc = "done" /\ pkg = "vector"
     /\ call.op \in {"ReflectThroughPlane", "v.ReflectThroughPlane"}) =>
        LET sq == V3m_MagSq(call.pre, call.args[2])
        IN (sq.k = "fin" /\ sq.n >= Scale
            /\ V3m_MagSq(call.pre, call.args[1]).k = "fin")
               => ReflectionIsInvolution(call.args[1], call.args[2])

\* C14 as stated: the same for every v whose squared magnitude is finite and
\* every non-zero normal.
C14_ReflectionThroughNonZeroNormal ==
    (/\ pc = "done" /\ pkg = "vector"
     /\ call.op \in {"ReflectThroughPlane", "v.ReflectThroughPlane"}) =>
        ((~isZero(call.pre, call.args[2])
          /\ V3m_MagSq(call.pre, call.args[1]).k = "fin")
             => ReflectionIsInvolution(call.args[1], call.args[2]))

\* (-3, -4, 2) was reflected through the plane of normal (1, 2, 0) into a
\* vector that differs from it.
C14_ReflectedThroughPlane ==
    /\ pc = "done"
    /\ pkg = "vector"
    /\ call.op = "ReflectThroughPlane"
    /\ call.pre[call.args[1]] = Vector(Fin(-3 * Scale), Fin(-4 * Scale), Fin(2 * Scale))
    /\ call.pre[call.args[2]] = Vector(One, Fin(2 * Scale), Zero)
    /\ ~NearQ(heap[call.p], call.pre[call.args[1]], 10)

\* x is the float32 result of a * b - c * d for finite a, b, c, d: when both
\* products are finite, x is within one quantum of the exact value (each
\* product is rounded once) or the infinity of its sign; otherwise x is
\* what the float32 operations give.
DiffOfProducts(x, a, b, c, d) ==
    /\ x = FSub(FMul(a, b), FMul(c, d))
    /\ (FMul(a, b).k = "fin" /\ FMul(c, d).k = "fin") =>
          IF x.k = "fin" THEN AbsI(x.n * Scale - (a.n * b.n - c.n * d.n)) <= Scale
          ELSE x.k = "inf" /\ x.n = SgnI(a.n * b.n - c.n * d.n)

\* No product of a component of a and a component of b overflows.
ProductsFinite(a, b) ==
    \A x \in {a.X, a.Y, a.Z}, y \in {b.X, b.Y, b.Z} : FMul(x, y).k = "fin"

\* The vector Cross(v2, v1) of the call's operands, exchanged.
CrossExchanged ==
    LET q == V3_Cross(call.pre, call.args[2], call.args[1])
    IN q.h[q.p]

\* What C15 says of Cross(v1, v2) where no product overflows.
CrossLaws ==
    LET a == call.pre[call.args[1]]
        b == call.pre[call.args[2]]
        r == heap[call.p]
    IN /\ a = b => r = Vector(Zero, Zero, Zero)
       /\ r = Vector(FNeg(CrossExchanged.X), FNeg(CrossExchanged.Y),
                     FNeg(CrossExchanged.Z))

\* Cross(v1, v2) is a new vector (y1*z2 - z1*y2, z1*x2 - x1*z2, x1*y2 - y1*x2).
CrossFormula ==
    LET a == call.pre[call.args[1]]
        b == call.pre[call.args[2]]
        r == heap[call.p]
    IN /\ call.p \notin DOMAIN call.pre
       /\ DiffOfProducts(r.X, a.Y, b.Z, a.Z, b.Y)
       /\ DiffOfProducts(r.Y, a.Z, b.X, a.X, b.Z)
       /\ DiffOfProducts(r.Z, a.X, b.Y, a.Y, b.X)

\* C15 as amended: Cross(v1, v2) of package vector returns the right-handed
\* cross product (y1*z2 - z1*y2, z1*x2 - x1*z2, x1*y2 - y1*x2) for all v1, v2;
\* where no product of two components overflows, Cross(v, v) is the zero
\* vector and Cross(v1, v2) = -Cross(v2, v1).
C15_CrossIsRightHanded ==
    (pc = "done" /\ pkg = "vector" /\ call.op \in {"Cross", "v.Cross"}) =>
        /\ CrossFormula
        /\ ProductsFinite(call.pre[call.args[1]], call.pre[call.args[2]]) => CrossLaws

\* C15 as stated: the same, with Cross(v, v) = 0 and Cross(v1, v2) =
\* -Cross(v2, v1) for all v, v1, v2.
C15_CrossLawsForAll ==
    (pc = "done" /\ pkg = "vector" /\ call.op \in {"Cross", "v.Cross"}) =>
        CrossFormula /\ CrossLaws

\* Cross((1, 0, 0), (0, 2, 0)) returned (0, 0, 2): the third axis, not its
\* opposite.
C15_CrossOfAxes ==
    /\ pc = "done"
    /\ pkg = "vector"
    /\ call.op = "Cross"
    /\ call.pre[call.args[1]] = Vector(One, Zero, Zero)
    /\ call.pre[call.args[2]] = Vector(Zero, Fin(2 * Scale), Zero)
    /\ heap[call.p] = Vector(Zero, Zero, Fin(2 * Scale))

\* The calls of AngleBetween of the two 2D packages.
AngleBetweenCalled ==
    /\ pc = "done"
    /\ pkg \in {"vector2d", "generic"}
    /\ call.op \in {"AngleBetween", "v.AngleBetween"}

\* The magnitude computed for the 2D vector a is finite and not zero.
RegularMag2(a) == Gm_Mag(a).k = "fin" /\ Gm_Mag(a).n # 0

\* What C16 says of the angle r returned for the vectors a and b, but for its
\* range: |r| is the acos of the clamped dot(a, b) / (|a| * |b|), r is not
\* positive when the cross product is below zero and not negative otherwise,
\* and the angle from (1, 0) to (0, 2) is pi/2, from (0, 2) to (1, 0) it is
\* -pi/2, and between (1, 0) and (-3, 0) it is +pi, each within one quantum.
SignedAngle(r, a, b) ==
    /\ r.k = "fin"
    /\ FAbs(r) = FAcos(FMin(One, FMax(FNeg(One),
                     FDiv(G_Dot(a, b), FMul(Gm_Mag(a), Gm_Mag(b))))))
    /\ IF a.X.n * b.Y.n - a.Y.n * b.X.n < 0 THEN r.n <= 0 ELSE r.n >= 0
    /\ (a = Vector2D(One, Zero) /\ b = Vector2D(Zero, Fin(2 * Scale)))
          => WithinQ(r, Fin(HalfPiQ), 1)
    /\ (a = Vector2D(Zero, Fin(2 * Scale)) /\ b = Vector2D(One, Zero))
          => WithinQ(r, Fin(-HalfPiQ), 1)
    /\ ({a, b} = {Vector2D(One, Zero), Vector2D(Fin(-3 * Scale), Zero)})
          => WithinQ(r, Fin(PiQ), 1)

\* C16 as amended: for 2D inputs whose magnitudes are finite and not zero,
\* AngleBetween(v1, v2) returns a signed angle in [-pi, pi] whose absolute
\* value is the acos of the dot product over the product of the magnitudes,
\* clamped to [-1, 1], and which is negated when the cross product
\* x1*y2 - y1*x2 is below zero; AngleBetween((1,0), (0,2)) = pi/2,
\* AngleBetween((0,2), (1,0)) = -pi/2 and anti-parallel inputs on an axis
\* give +pi.
C16_SignedAngleClosedRange ==
    AngleBetweenCalled =>
        LET a == call.pre[call.args[1]]
            b == call.pre[call.args[2]]
        IN (RegularMag2(a) /\ RegularMag2(b)) =>
              /\ ~call.err /\ ~call.panic
              /\ SignedAngle(call.val, a, b)
              /\ -PiQ <= call.val.n /\ call.val.n <= PiQ

\* C16 as stated: for non-zero inputs the same with the angle in (-pi, pi].
C16_SignedAngleHalfOpenRange ==
    AngleBetweenCalled =>
        LET a == call.pre[call.args[1]]
            b == call.pre[call.args[2]]
        IN (a # Vector2D(Zero, Zero) /\ b # Vector2D(Zero, Zero)) =>
              /\ SignedAngle(call.val, a, b)
              /\ -PiQ < call.val.n /\ call.val.n <= PiQ

\* AngleBetween((0, 2), (1, 0)) of the static package returned -pi/2, within
\* one quantum.
C16_ClockwiseQuarter ==
    /\ pc = "done"
    /\ pkg = "vector2d"
    /\ call.op = "AngleBetween"
    /\ call.pre[call.args[1]] = Vector2D(Zero, Fin(2 * Scale))
    /\ call.pre[call.args[2]] = Vector2D(One, Zero)
    /\ call.val.k = "fin"
    /\ WithinQ(call.val, Fin(-HalfPiQ), 1)

\* The calls of Angle of package vector.
AngleCalled == pc = "done" /\ pkg = "vector" /\ call.op \in {"Angle", "v.Angle"}

\* The magnitude computed for an operand of the call is zero.
ZeroMagnitude ==
    \E i \in {1, 2} : FEq(MagIn(pkg, call.pre, call.args[i]), Zero)

\* What C17 says of an operand of zero magnitude: Angle of package vector and
\* AngleBetween of the static package return NaN, and AngleBetween of the
\* generic package returns 0 and an error; nothing panics.
ZeroMagnitudeAngle ==
    ((AngleCalled \/ AngleBetweenCalled) /\ ZeroMagnitude) =>
        /\ ~call.panic
        /\ IF pkg = "generic" THEN call.err /\ call.val = Zero
           ELSE ~call.err /\ IsNaN(call.val)

\* C17 as amended: whenever the magnitude computed for an operand is zero,
\* Angle of package vector and the static AngleBetween return NaN without a
\* fault and the generic AngleBetween returns 0 and an error; whenever both
\* magnitudes are finite and not zero, the 2D forms return no NaN and no
\* error.
C17_ZeroMagnitudeIsNaNOrError ==
    /\ ZeroMagnitudeAngle
    /\ (/\ AngleBetweenCalled
        /\ RegularMag2(call.pre[call.args[1]])
        /\ RegularMag2(call.pre[call.args[2]])) =>
           ~IsNaN(call.val) /\ ~call.err /\ ~call.panic

\* C17 as stated: the same, the 2D forms returning no NaN and no error
\* whenever both operands are non-zero vectors.
C17_NonZeroIsNeverNaN ==
    /\ ZeroMagnitudeAngle
    /\ (/\ AngleBetweenCalled
        /\ call.pre[call.args[1]] # Vector2D(Zero, Zero)
        /\ call.pre[call.args[2]] # Vector2D(Zero, Zero)) =>
           ~IsNaN(call.val) /\ ~call.err /\ ~call.panic

\* The generic AngleBetween was called with (1, 2) and the zero vector, and
\* returned 0 and an error.
C17_GenericZeroOperand ==
    /\ pc = "done"
    /\ pkg = "generic"
    /\ call.op = "AngleBetween"
    /\ call.pre[call.args[1]] = Vector2D(One, Fin(2 * Scale))
    /\ call.pre[call.args[2]] = Vector2D(Zero, Zero)
    /\ call.err
    /\ call.val = Zero

\* Heading of package vector was called: call.val is theta, call.val2 is phi.
HeadingCalled == pc = "done" /\ pkg = "vector" /\ call.op = "v.Heading"

\* What C18 says of the heading of a vector w that is not the zero vector:
\* theta = atan2(y, x), phi = acos(z / |w|), phi is in [0, pi] and is not NaN;
\* so the heading of (0, 0, 2) is phi = 0, that of (1, 0, 0) is theta = 0 and
\* phi = pi/2, and that of (-3, 0, 0) is theta = pi, each within one quantum.
HeadingOf(w) ==
    /\ call.val = FAtan2(w.Y, w.X)
    /\ call.val2 = FAcos(FDiv(w.Z, V3m_Mag(<<w>>, 1)))
    /\ call.val2.k = "fin" /\ 0 <= call.val2.n /\ call.val2.n <= PiQ
    /\ call.val.k = "fin"
    /\ w = Vector(Zero, Zero, Fin(2 * Scale)) => WithinQ(call.val2, Zero, 1)
    /\ w = Vector(One, Zero, Zero) =>
          WithinQ(call.val, Zero, 1) /\ WithinQ(call.val2, Fin(HalfPiQ), 1)
    /\ w = Vector(Fin(-3 * Scale), Zero, Zero) => WithinQ(call.val, Fin(PiQ), 1)

Interpolated(x, a, b, t) ==
    /\ x = FAdd(a, FMul(FSub(b, a), t))
    /\ (t.k = "fin" /\ FSub(b, a).k = "fin" /\ x.k = "fin") =>
          AbsI(x.n * Scale - (a.n * Scale + (b.n - a.n) * t.n)) <= Scale

\* The vector r is component-wise a + (b - a) * t.
LerpOf(r, a, b, t) ==
    /\ Interpolated(r.X, a.X, b.X, t)
    /\ Interpolated(r.Y, a.Y, b.Y, t)
    /\ Interpolated(r.Z, a.Z, b.Z, t)

\* No difference of two components of a and b overflows.
DifferencesFinite(a, b) ==
    FSub(b.X, a.X).k = "fin" /\ FSub(b.Y, a.Y).k = "fin" /\ FSub(b.Z, a.Z).k = "fin"

\* The parameter of the interpolation called: t for Lerp, i / n in real
\* division for Lerp2 (call.nums is <<n, i>>, whole numbers).
LerpParameter ==
    IF call.op = "Lerp" THEN call.nums[1]
    ELSE FDiv(Rnd(call.nums[2].n * Scale), Rnd(call.nums[1].n * Scale))

\* What C19 says of Lerp and Lerp2: the result is a new vector, component-wise
\* v1 + (v2 - v1) * t with t as passed (i / n for Lerp2, a quarter for n = 4
\* and i = 1).
LerpFormula ==
    /\ call.p \notin DOMAIN call.pre
    /\ LerpOf(heap[call.p], call.pre[call.args[1]], call.pre[call.args[2]],
              LerpParameter)
    /\ (call.op = "Lerp2" /\ call.nums = <<Fin(4), Fin(1)>>) =>
          LerpParameter = Fin(Scale \div 4)

\* and of the ends: the result is v1 for t = 0 and v2 for t = 1.
LerpEnds ==
    /\ LerpParameter = Zero => heap[call.p] = call.pre[call.args[1]]
    /\ LerpParameter = One => heap[call.p] = call.pre[call.args[2]]

\* C19 as amended: Lerp(v1, v2, t) returns component-wise v1 + (v2 - v1)*t
\* for any t, not clamped to [0, 1]; Lerp2(v1, v2, n, i) equals
\* Lerp(v1, v2, i/n) with the real division; where no difference v2 - v1 of
\* components overflows, Lerp(v1, v2, 0) = v1 and Lerp(v1, v2, 1) = v2.
C19_LerpIsNotClamped ==
    (pc = "done" /\ pkg = "vector" /\ call.op \in {"Lerp", "Lerp2"}) =>
        /\ LerpFormula
        /\ DifferencesFinite(call.pre[call.args[1]], call.pre[call.args[2]])
              => LerpEnds

\* C19 as stated: the same, with Lerp(v1, v2, 0) = v1 and Lerp(v1, v2, 1) = v2
\* for all v1 and v2.
C19_LerpEndsForAll ==
    (pc = "done" /\ pkg = "vector" /\ call.op \in {"Lerp", "Lerp2"}) =>
        LerpFormula /\ LerpEnds

\* Lerp((1, 0, 0), (-3, -4, 2), 3) returned (-11, -12, 6), beyond v2.
C19_Extrapolated ==
    /\ pc = "done"
    /\ pkg = "vector"
    /\ call.op = "Lerp"
    /\ call.pre[call.args[1]] = Vector(One, Zero, Zero)
    /\ call.pre[call.args[2]] = Vector(Fin(-3 * Scale), Fin(-4 * Scale), Fin(2 * Scale))
    /\ call.nums[1] = Fin(3 * Scale)
    /\ heap[call.p] = Vector(Fin(-11 * Scale), Fin(-12 * Scale), Fin(6 * Scale))

\* The mutating methods of package vector and of the static package vector2d.
Mutators ==
    {"v.Normalize", "v.Resize", "v.Add", "v.Sub", "v.Mult", "v.Assign",
     "v.SetHeading", "v.Rotate", "v.RotateAlongAxis", "v.ReflectThroughPlane"}

\* C20: every mutating method of package vector and of the static package
\* vector2d returns the very cell it was called on, whatever the arguments (a
\* zero receiver, a zero axis and a zero normal included), allocates no cell
\* that it returns, and does not panic: a write through the reference returned
\* is a write to the receiver.
C20_MutatorsReturnReceiver ==
    (pc # "new" /\ pkg \in {"vector", "vector2d"} /\ call.op \in Mutators) =>
        /\ ~call.panic
        /\ call.p = call.args[1]
        /\ call.p \in DOMAIN call.pre
        /\ call.touched \in {0} \cup Inputs

\* v.ReflectThroughPlane(normal) with a normal that is not zero changed v and
\* returned v, and the caller then wrote to v through the reference returned.
C20_ChainedOnReceiver ==
    /\ pc = "touched"
    /\ pkg = "vector"
    /\ call.op = "v.ReflectThroughPlane"
    /\ ~isZero(call.pre, call.args[2])
    /\ call.p = call.args[1]
    /\ call.touched = call.args[1]
    /\ heap[call.args[1]] # call.pre[call.args[1]]

\* The cell x holds the components of the vector w but for the caller's
\* write to it, if any.
HoldsButTouch(x, w) == IF call.touched = x THEN heap[x] # w ELSE heap[x] = w

\* What C21 says of Copy: the result is a cell other than v holding the
\* components of v, and v keeps them; a write to either afterwards changes
\* that one and not the other.
CopyIsDistinct ==
    LET v == call.args[1]
    IN /\ call.p \notin DOMAIN call.pre
       /\ call.p \in DOMAIN heap
       /\ HoldsButTouch(call.p, call.pre[v])
       /\ HoldsButTouch(v, call.pre[v])

\* and of v1.Assign(v2) for v2 another instance than v1: v1 holds the
\* components of v2, v2 keeps them, and both stay the cells they were; a
\* write to either afterwards changes that one and not the other.
AssignDoesNotAlias ==
    LET v1 == call.args[1]
        v2 == call.args[2]
    IN v1 # v2 =>
          /\ call.p = v1
          /\ DOMAIN heap = DOMAIN call.pre
          /\ HoldsButTouch(v1, call.pre[v2])
          /\ HoldsButTouch(v2, call.pre[v2])

\* C21: Copy (method and free function, in the three packages) returns a
\* distinct instance with the components of the original, and Assign(v2)
\* makes the receiver's components those of v2 without aliasing it; after
\* either, a write to a component of one vector leaves the other unchanged,
\* in both directions.
C21_CopyAndAssignDoNotAlias ==
    /\ (pc # "new" /\ call.op \in {"Copy", "v.Copy"}) => CopyIsDistinct
    /\ (pc # "new" /\ call.op = "v.Assign") => AssignDoesNotAlias

\* v1.Assign(v2) was called with another instance v2 of other components,
\* and the caller then wrote to v2.
C21_ArgumentWrittenAfterAssign ==
    /\ pc = "touched"
    /\ call.op = "v.Assign"
    /\ call.args[1] # call.args[2]
    /\ call.pre[call.args[1]] # call.pre[call.args[2]]
    /\ call.touched = call.args[2]
    /\ heap[call.args[1]] = call.pre[call.args[2]]

\* The component-wise combination of the vectors a and b of the package by
\* the float32 operation F(_, _).
Componentwise(F(_, _), a, b) ==
    IF pkg = "vector" THEN Vector(F(a.X, b.X), F(a.Y, b.Y), F(a.Z, b.Z))
    ELSE Vector2D(F(a.X, b.X), F(a.Y, b.Y))

\* C22: the mutating v1.Add(v2) and v1.Sub(v2), in the three packages, set
\* v1 to the component-wise sum and difference of the two vectors as they
\* were before the call, and leave the components of v2 unchanged whenever
\* v2 is another instance than v1.
C22_AddSubLeaveArgument ==
    (pc = "done" /\ call.op \in {"v.Add", "v.Sub"}) =>
        LET v1 == call.args[1]
            v2 == call.args[2]
        IN /\ ~call.panic
           /\ DOMAIN heap = DOMAIN call.pre
           /\ call.op = "v.Add" =>
                 heap[v1] = Componentwise(FAdd, call.pre[v1], call.pre[v2])
           /\ call.op = "v.Sub" =>
                 heap[v1] = Componentwise(FSub, call.pre[v1], call.pre[v2])
           /\ v1 # v2 => heap[v2] = call.pre[v2]

\* The static v1.Add(v2) was called with another instance v2, not the zero
\* vector, so that v1 changed and v2 did not.
C22_AddedDistinctInstance ==
    /\ pc = "done"
    /\ pkg = "vector2d"
    /\ call.op = "v.Add"
    /\ call.args[1] # call.args[2]
    /\ heap[call.args[1]] # call.pre[call.args[1]]
    /\ heap[call.args[2]] = call.pre[call.args[2]]

\* SetHeading, or the 2D Rotate, was called with angles that are finite
\* numbers.
TurnCalled ==
    /\ pc = "done"
    /\ call.op \in {"v.SetHeading", "v.Rotate"}
    /\ pkg = "generic" => AllNumeric
    /\ \A i \in DOMAIN call.nums :
          (IF pkg = "generic" THEN Convert(call.nums[i]) ELSE call.nums[i]).k = "fin"

\* The angle passed to the 2D call.
TurnAngle == IF pkg = "generic" THEN Convert(call.nums[1]) ELSE call.nums[1]

\* The angles a and b, in quanta, are the same modulo 2*pi within t quanta.
SameAngleQ(a, b, t) ==
    LET d == (a - b) % TwoPiQ
    IN d <= t \/ TwoPiQ - d <= t

\* What C23 says of the call on the vector w: the magnitude is the one w
\* had, within one part in 20 and three quanta, and after a 2D SetHeading(a)
\* on a vector of non-zero magnitude the heading is a modulo 2*pi, within
\* three quanta.
TurnKeepsMagnitude(w) ==
    LET r == heap[call.args[1]]
        m0 == MagIn(pkg, <<w>>, 1)
        m1 == MagIn(pkg, <<r>>, 1)
    IN /\ ~call.panic /\ ~call.err
       /\ m0.k = "fin" /\ m1.k = "fin"
       /\ AbsI(m1.n - m0.n) <= m0.n \div 20 + 3
       /\ (pkg # "vector" /\ call.op = "v.SetHeading" /\ m0.n # 0) =>
              /\ Gm_Heading(r).k = "fin"
              /\ SameAngleQ(Gm_Heading(r).n, TurnAngle.n, 3)

\* C23 as amended: SetHeading (3D: theta, phi; 2D: angle, static and
\* generic) and the 2D Rotate(angle) preserve the magnitude Mag() of every
\* vector whose squared magnitude does not overflow, for every finite angle
\* (0, pi/2, pi, 2*pi and negative angles included), within tolerance; and
\* the 2D heading after SetHeading(a) is a modulo 2*pi for every such vector
\* whose magnitude Mag() is not zero.
C23_TurnKeepsFiniteMagnitude ==
    (TurnCalled /\ MagSqIn(pkg, call.pre, call.args[1]).k = "fin") =>
        TurnKeepsMagnitude(call.pre[call.args[1]])

\* C23 as stated: the magnitude is preserved, and the 2D heading set, for
\* every vector and every angle.
C23_TurnKeepsMagnitudeAlways ==
    TurnCalled => TurnKeepsMagnitude(call.pre[call.args[1]])

\* The static SetHeading(pi/2) was called on (-3, -4) and left a vector of
\* magnitude 5 along the y axis, other than the one it was.
C23_HeadingSetToQuarter ==
    /\ pc = "done"
    /\ pkg = "vector2d"
    /\ call.op = "v.SetHeading"
    /\ call.nums[1] = Fin(HalfPiQ)
    /\ call.pre[call.args[1]] = Vector2D(Fin(-3 * Scale), Fin(-4 * Scale))
    /\ WithinQ(heap[call.args[1]].X, Zero, 8)
    /\ WithinQ(heap[call.args[1]].Y, Fin(5 * Scale), 8)

\* The 2D Equal, static or generic, was called with no tolerance or with one
\* tolerance that is a number.
Equal2Called ==
    /\ pc = "done"
    /\ pkg \in {"vector2d", "generic"}
    /\ call.op = "v.Equal"
    /\ Len(call.opt) <= 1
    /\ NumericTolerance(pkg, call.opt)

ManyOptionals ==
    /\ pc = "done"
    /\ pkg \in {"vector", "vector2d"}
    /\ call.op \in {"FromAngle", "FromAngles", "Random", "v.Equal"}
    /\ Len(call.opt) > 1

\* What the call returns when passed the optional arguments opt with the
\* other arguments it had.
WithOptionals(opt) ==
    CASE call.op = "FromAngles" ->
             V3_FromAngles(call.pre, call.nums[1], call.nums[2], opt)
      [] call.op = "FromAngle" -> V2_FromAngle(call.pre, call.nums[1], opt)
      [] call.op = "Random" /\ pkg = "vector" ->
             V3_Random(call.pre, opt, call.nums[1], call.nums[2])
      [] call.op = "Random" /\ pkg = "vector2d" ->
             V2_Random(call.pre, opt, call.nums[1])
      [] OTHER ->
             RetBool(call.pre, EqualIn(pkg, call.pre, call.args[1], call.args[2], opt))

\* C25: in the statically typed packages, FromAngle / FromAngles, Random and
\* Equal passed more than one optional argument use the first and ignore the
\* rest, without error or panic: the result is the one of the same call with
\* the first optional argument alone, and the vector Random returns has the
\* first length as its magnitude, within tolerance.
C25_FirstOptionalIsUsed ==
    ManyOptionals =>
        LET one == WithOptionals(<<call.opt[1]>>)
        IN /\ ~call.err /\ ~call.panic
           /\ call.b = one.b
           /\ call.p = one.p
           /\ heap = one.h
           /\ call.op = "Random" =>
                 LET m == MagIn(pkg, heap, call.p)
                 IN m.k = "fin" /\ AbsI(m.n - call.opt[1].n) <= call.opt[1].n \div 20 + 3

\* The static FromAngle(angle, 0, 1) returned the zero vector, as
\* FromAngle(angle, 0) does and FromAngle(angle, 1) does not.
C25_SecondLengthIgnored ==
    /\ pc = "done"
    /\ pkg = "vector2d"
    /\ call.op = "FromAngle"
    /\ call.opt = <<Zero, One>>
    /\ heap[call.p] = Vector2D(Zero, Zero)
    /\ WithOptionals(<<One>>).h # heap

\* C26 as stated: in every program that imports one or more of the packages,
\* once initialization is over the global source has been seeded exactly
\* once, and it stays so whatever calls to Random main makes.
C26_SeededExactlyOnce == pc = "main" => rand.seeds = 1

\* A program that imports two or three of the packages reached main and
\* called Random: each init() seeded the source, which was seeded more than
\* once, and never after initialization.
C26_SeededByEachPackage ==
    /\ pc = "main"
    /\ Cardinality(imports) > 1
    /\ rand.seeds = Cardinality(imports)
    /\ rand.draws > 0

\* The mutators C27 names.
ZeroKeepers ==
    {"v.Normalize", "v.Resize", "v.Mult", "v.SetHeading", "v.Rotate",
     "v.RotateAlongAxis", "v.ReflectThroughPlane"}

\* C27 as stated: a zero vector is still the zero vector after Normalize,
\* Resize, Mult, SetHeading, Rotate (2D), RotateAlongAxis or
\* ReflectThroughPlane with arbitrary arguments, and so after any finite
\* sequence of them: no component becomes non-zero or NaN.
C27_ZeroIsAbsorbing ==
    (pc = "done" /\ call.op \in ZeroKeepers /\ call.pre[call.args[1]] = ZeroOf(pkg)) =>
        heap[call.args[1]] = ZeroOf(pkg)

\* The zero vector of the static 2D package was multiplied by +Inf and holds
\* NaN.
C27_ZeroTimesInf ==
    /\ pc = "done"
    /\ pkg = "vector2d"
    /\ call.op = "v.Mult"
    /\ call.pre[call.args[1]] = Vector2D(Zero, Zero)
    /\ call.nums[1] = PInf
    /\ heap[call.args[1]] = Vector2D(NaN, NaN)

\* The Vector3 mutators that take a vector argument.
VectorArgMutators ==
    {"v.Add", "v.Sub", "v.Assign", "v.RotateAlongAxis", "v.ReflectThroughPlane"}

\* What the method op leaves in the receiver, cell 1 of heap h, when called
\* with cell 2 as its vector argument and the other arguments of the call.
MutatedBy(op, h) ==
    CASE op = "v.Add" -> V3m_Add(h, 1, 2).h[1]
      [] op = "v.Sub" -> V3m_Sub(h, 1, 2).h[1]
      [] op = "v.Assign" -> V3m_Assign(h, 1, 2).h[1]
      [] op = "v.RotateAlongAxis" -> V3m_RotateAlongAxis(h, 1, 2, call.nums[1]).h[1]
      [] OTHER -> V3m_ReflectThroughPlane(h, 1, 2).h[1]

\* C28: a Vector3 mutator called with the receiver itself as its vector
\* argument (v.Add(v), v.Sub(v), v.Assign(v), v.RotateAlongAxis(v, angle),
\* v.ReflectThroughPlane(v)) leaves v with the very components that the call
\* with an independent copy of v as the argument leaves, and does not panic.
C28_MutatorsAreAliasSafe ==
    (pc = "done" /\ pkg = "vector" /\ call.op \in VectorArgMutators
        /\ call.args[1] = call.args[2]) =>
        LET w == call.pre[call.args[1]]
        IN /\ ~call.panic
           /\ heap[call.args[1]] = MutatedBy(call.op, <<w, w>>)

\* v.RotateAlongAxis(v, pi/2) was called on a vector that is not zero, and
\* left it as it was within tolerance.
C28_RotatedAlongItself ==
    /\ pc = "done"
    /\ pkg = "vector"
    /\ call.op = "v.RotateAlongAxis"
    /\ call.args[1] = call.args[2]
    /\ call.nums[1] = Fin(HalfPiQ)
    /\ call.pre[call.args[1]] = Vector(Fin(-3 * Scale), Fin(-4 * Scale), Fin(2 * Scale))
    /\ NearQ(heap[call.args[1]], call.pre[call.args[1]], 30)

\* The methods that return a number, those that return a new vector and
\* those that change the receiver, among the methods that have a free
\* function of the same name in their package.
NumberMethods == {"v.Dot", "v.Dist", "v.Angle", "v.AngleBetween"}
                     \cup (IF pkg = "vector" THEN {} ELSE {"v.Cross"})
VectorMethods == {"v.Copy"} \cup (IF pkg = "vector" THEN {"v.Cross"} ELSE {})
ChangingMethods == {"v.Add", "v.Sub", "v.RotateAlongAxis", "v.ReflectThroughPlane"}
HasFreeForm ==
    /\ call.op \in NumberMethods \cup VectorMethods \cup ChangingMethods
    /\ pkg # "vector" => call.op # "v.Dist"

\* What the free function of package vector named as the method called
\* returns for the arguments of the call.
FreeForm3 ==
    LET h == call.pre
        a == call.args[1]
        b == call.args[2]
    IN CASE call.op = "v.Dot" -> RetVal(h, V3_Dot(h, a, b))
         [] call.op = "v.Angle" -> RetVal(h, V3_Angle(h, a, b))
         [] call.op = "v.Dist" -> V3_Dist(h, a, b)
         [] call.op = "v.Cross" -> V3_Cross(h, a, b)
         [] call.op = "v.Copy" -> V3_Copy(h, a)
         [] call.op = "v.Add" -> V3_Add(h, a, b)
         [] call.op = "v.Sub" -> V3_Sub(h, a, b)
         [] call.op = "v.RotateAlongAxis" -> V3_RotateAlongAxis(h, a, b, call.nums[1])
         [] OTHER -> V3_ReflectThroughPlane(h, a, b)

\* and the one of the static 2D package,
FreeForm2 ==
    LET h == call.pre
        a == call.args[1]
        b == call.args[2]
    IN CASE call.op = "v.Dot" -> RetVal(h, V2_Dot(h, a, b))
         [] call.op = "v.Cross" -> RetVal(h, V2_Cross(h, a, b))
         [] call.op = "v.AngleBetween" -> RetVal(h, V2_AngleBetween(h, a, b))
         [] call.op = "v.Copy" -> V2_Copy(h, a)
         [] call.op = "v.Add" -> V2_Add(h, a, b)
         [] OTHER -> V2_Sub(h, a, b)

\* and the one of the generic 2D package.
FreeFormG ==
    LET h == call.pre
        a == call.pre[call.args[1]]
        b == call.pre[call.args[2]]
    IN CASE call.op = "v.Dot" -> RetVal(h, G_Dot(a, b))
         [] call.op = "v.Cross" -> RetVal(h, G_Cross(a, b))
         [] call.op = "v.AngleBetween" -> G_AngleBetween(h, a, b)
         [] call.op = "v.Copy" -> G_Copy(h, a)
         [] call.op = "v.Add" -> G_Add(h, a, b)
         [] OTHER -> G_Sub(h, a, b)

FreeForm ==
    CASE pkg = "vector" -> FreeForm3
      [] pkg = "vector2d" -> FreeForm2
      [] OTHER -> FreeFormG

\* C29: every method that has a free function of the same name agrees with
\* it on all inputs, in the three packages: v.Dot(w), v.Cross(w), v.Dist(w),
\* v.Angle(w), v.AngleBetween(w) and v.Copy() return what the free function
\* returns for (v, w), and after v.Add(w), v.Sub(w), v.RotateAlongAxis(axis, a)
\* or v.ReflectThroughPlane(n) the receiver holds the components of the
\* vector that the free function returns for the receiver's prior value.
C29_MethodsAgreeWithFunctions ==
    (pc = "done" /\ HasFreeForm) =>
        LET f == FreeForm
        IN /\ call.err = f.err /\ call.panic = f.panic
           /\ call.op \in NumberMethods => call.val = f.val
           /\ call.op \in VectorMethods =>
                 call.p \in DOMAIN heap /\ heap[call.p] = f.h[f.p]
           /\ call.op \in ChangingMethods => heap[call.args[1]] = f.h[f.p]

\* v.Sub(w) of package vector was called on two different vectors and left
\* in v the components of Sub(v, w), which are not those of Sub(w, v).
C29_SubtractedInPlace ==
    /\ pc = "done"
    /\ pkg = "vector"
    /\ call.op = "v.Sub"
    /\ call.pre[call.args[1]] # call.pre[call.args[2]]
    /\ heap[call.args[1]] = FreeForm.h[FreeForm.p]
    /\ heap[call.args[1]] # call.pre[call.args[1]]

\* The operations of the generic package that the static 2D package has as
\* well: those that return a vector, a number or a boolean, and those that
\* change the receiver.
SharedVectorOps == {"New", "FromAngle", "v.Copy", "Copy", "Unit", "Add", "Sub"}
SharedNumberOps ==
    {"v.Mag", "v.MagSq", "v.Heading", "v.Dist", "v.Dot", "Dot", "v.Cross", "Cross"}
SharedChangingOps ==
    {"v.Normalize", "v.Resize", "v.Add", "v.Sub", "v.Mult", "v.Rotate", "v.SetHeading"}

\* A shared operation of the generic package was called with numbers and at
\* most one optional argument.
SharedCalled ==
    /\ pc = "done"
    /\ pkg = "generic"
    /\ call.op \in SharedVectorOps \cup SharedNumberOps \cup SharedChangingOps
                      \cup {"v.Equal"}
    /\ Len(call.opt) <= 1
    /\ AllNumeric

\* What the static 2D package returns for the same operation on the same
\* vectors and the float32 values of the same numbers.
StaticForm ==
    LET h == call.pre
        a == call.args[1]
        b == call.args[2]
        x == Convert(call.nums[1])
        y == Convert(call.nums[2])
        opt == [i \in DOMAIN call.opt |-> Convert(call.opt[i])]
    IN CASE call.op = "New" -> V2_New(h, x, y)
         [] call.op = "FromAngle" -> V2_FromAngle(h, x, opt)
         [] call.op = "v.Equal" -> RetBool(h, V2m_Equal(h, a, b, opt))
         [] call.op = "v.Copy" -> V2m_Copy(h, a)
         [] call.op = "Copy" -> V2_Copy(h, a)
         [] call.op = "Unit" -> V2_Unit(h, a)
         [] call.op = "Add" -> V2_Add(h, a, b)
         [] call.op = "Sub" -> V2_Sub(h, a, b)
         [] call.op = "v.Mag" -> RetVal(h, V2m_Mag(h, a))
         [] call.op = "v.MagSq" -> RetVal(h, V2m_MagSq(h, a))
         [] call.op = "v.Heading" -> RetVal(h, V2m_Heading(h, a))
         [] call.op = "v.Dist" -> V2m_Dist(h, a, b)
         [] call.op = "v.Dot" -> RetVal(h, V2m_Dot(h, a, b))
         [] call.op = "Dot" -> RetVal(h, V2_Dot(h, a, b))
         [] call.op = "v.Cross" -> RetVal(h, V2m_Cross(h, a, b))
         [] call.op = "Cross" -> RetVal(h, V2_Cross(h, a, b))
         [] call.op = "v.Normalize" -> V2m_Normalize(h, a)
         [] call.op = "v.Resize" -> V2m_Resize(h, a, x)
         [] call.op = "v.Add" -> V2m_Add(h, a, b)
         [] call.op = "v.Sub" -> V2m_Sub(h, a, b)
         [] call.op = "v.Mult" -> V2m_Mult(h, a, x)
         [] call.op = "v.Rotate" -> V2m_Rotate(h, a, x)
         [] OTHER -> V2m_SetHeading(h, a, x)

\* C30: on numeric arguments with at most one optional argument, every
\* operation of the generic Vector2D that the static Vector2 has as well (New,
\* FromAngle, Equal, Mag, MagSq, Heading, Normalize, Resize, Add, Sub, Mult,
\* Rotate, SetHeading, Dist, Dot, Cross, Unit, Copy) returns no error, does
\* not panic, and computes what the static one computes: the same vector,
\* number or boolean, and the same components left in the receiver.
C30_GenericAgreesWithStatic ==
    SharedCalled =>
        LET s == StaticForm
        IN /\ ~call.err /\ ~call.panic
           /\ call.op = "v.Equal" => call.b = s.b
           /\ call.op \in SharedNumberOps => call.val = s.val
           /\ call.op \in SharedVectorOps =>
                 call.p \in DOMAIN heap /\ heap[call.p] = s.h[s.p]
           /\ call.op \in SharedChangingOps =>
                 heap[call.args[1]] = s.h[call.args[1]]

\* The generic Resize was passed the int 2 on (-3, -4) and left the vector
\* that the static Resize(2.0) leaves, of magnitude 2.
C30_ResizedToInt ==
    /\ pc = "done"
    /\ pkg = "generic"
    /\ call.op = "v.Resize"
    /\ call.nums[1] = DynInt(2)
    /\ call.pre[call.args[1]] = Vector2D(Fin(-3 * Scale), Fin(-4 * Scale))
    /\ heap[call.args[1]] = StaticForm.h[call.args[1]]
    /\ WithinQ(Gm_Mag(heap[call.args[1]]), Fin(2 * Scale), 5)

=============================================================================
